---- MODULE Spec2Model ----
(***************************************************************************)
(* Tool-calling orchestration of the Todo chatbot backend: the five task   *)
(* tools (src/backend/src/mcp/tools), the ownership guard                  *)
(* (validation/security_guard.py), the tool executor (mcp/server.py), the  *)
(* model gateway (agents/cohere_client.py), the orchestrator               *)
(* (agents/orchestrator.py) and the chat endpoint (api/chat.py).           *)
(*                                                                         *)
(* Python values are tagged records; a Python str is a sequence of tokens, *)
(* a token being one character of a user-supplied string or one literal    *)
(* fragment of a format string of the source.                              *)
(***************************************************************************)
EXTENDS Integers, Sequences, FiniteSets, TLC

(***************************************************************************)
(* Bounds of the model.                                                    *)
(***************************************************************************)
\* tool-call requests in one model response
MaxCalls == 2
\* direct tool executions in one behaviour of SpecTools
MaxSteps == 2
\* register_tool calls in one behaviour of SpecRegistry
MaxRegistrations == 2
\* chat requests of one identity in progress at once in SpecChat
MaxRequests == 2
\* store_message calls made beside the chat requests in SpecChat
MaxStores == 1

(***************************************************************************)
(* Python values.                                                          *)
(***************************************************************************)
NoneV == [t |-> "none"]
IntV(i) == [t |-> "int", i |-> i]
StrV(s) == [t |-> "str", s |-> s]
\* a JSON value that is not an object (a list), as json.loads may return
ListV == [t |-> "list"]

\* Python truthiness: None, 0, "" and [] are false
Truthy(v) ==
    CASE v.t = "none" -> FALSE
      [] v.t = "int" -> v.i # 0
      [] v.t = "str" -> v.s # <<>>
      [] OTHER -> FALSE

(***************************************************************************)
(* Strings.                                                                *)
(***************************************************************************)
IsSpace(c) == c = " "

RECURSIVE lstrip(_)
lstrip(s) == IF s # <<>> /\ IsSpace(Head(s)) THEN lstrip(Tail(s)) ELSE s

RECURSIVE rstrip(_)
rstrip(s) ==
    IF s # <<>> /\ IsSpace(s[Len(s)]) THEN rstrip(SubSeq(s, 1, Len(s) - 1)) ELSE s

\* str.strip()
strip(s) == rstrip(lstrip(s))

\* case folding of one character, as ILIKE compares
Lower(c) == IF c = "A" THEN "a" ELSE IF c = "B" THEN "b" ELSE c

\* SQL LIKE on case-folded characters: % matches any run, _ any one character
RECURSIVE like(_, _)
like(p, s) ==
    IF p = <<>> THEN s = <<>>
    ELSE IF Head(p) = "%"
         THEN like(Tail(p), s) \/ (s # <<>> /\ like(p, Tail(s)))
    ELSE IF Head(p) = "_"
         THEN s # <<>> /\ like(Tail(p), Tail(s))
    ELSE s # <<>> /\ Lower(Head(p)) = Lower(Head(s)) /\ like(Tail(p), Tail(s))

\* Task.title.ilike(f"%{task_title}%")
ilike(title, task_title) == like(<<"%">> \o task_title \o <<"%">>, title)

(***************************************************************************)
(* Result envelopes (mcp/tools/base.py).                                   *)
(***************************************************************************)
create_success_result(message, data) ==
    [success |-> TRUE, message |-> message, data |-> data]

create_error_result(message, error_code) ==
    [success |-> FALSE, message |-> message, error_code |-> error_code,
     data |-> <<>>]

(***************************************************************************)
(* The task store: the committed rows of table tasks and the next value of *)
(* the autoincrement key.  A row is [id, user_id, title, description,      *)
(* completed].                                                             *)
(***************************************************************************)
Row(id, user_id, title, description, completed) ==
    [id |-> id, user_id |-> user_id, title |-> title,
     description |-> description, completed |-> completed]

\* what a handler step yields: the store after it, the envelope returned, and
\* the rows it read into its result, created, modified or deleted
Out(rows, nextId, result, touched) ==
    [rows |-> rows, nextId |-> nextId, result |-> result, touched |-> touched]

\* the rows of a set in ascending id order
RECURSIVE ById(_)
ById(S) ==
    IF S = {} THEN <<>>
    ELSE LET m == CHOOSE r \in S : \A q \in S : r.id <= q.id
         IN <<m>> \o ById(S \ {m})

RECURSIVE Reverse(_)
Reverse(s) == IF s = <<>> THEN <<>> ELSE Reverse(Tail(s)) \o <<Head(s)>>

Take(s, n) == SubSeq(s, 1, IF n < Len(s) THEN n ELSE Len(s))

\* dict.get / keyword default
Arg(params, k, default) == IF k \in DOMAIN params THEN params[k] ELSE default

(***************************************************************************)
(* SecurityGuard (validation/security_guard.py).                           *)
(***************************************************************************)
\* a check that lets a negative user_id through
validate_user_id_not_zero(user_id) ==
    IF ~ Truthy(user_id) THEN "ValueError"
    ELSE IF user_id.t # "int" THEN "TypeError"
    ELSE "ok"

\* validate_user_id: "ok" when it returns; else the exception it raises, a
\* TypeError when user_id <= 0 compares a str with 0
validate_user_id(user_id) ==
    IF ~ Truthy(user_id) THEN "ValueError"
    ELSE IF user_id.t # "int" THEN "TypeError"
    ELSE IF user_id.i <= 0 THEN "ValueError"
    ELSE "ok"

\* a guard that selects on Task.id alone
validate_task_ownership_any_owner(rows, task_id, user_id) ==
    {r \in rows : r.id = task_id}

\* select(Task).where(Task.id == task_id, Task.user_id == user_id): the set of
\* rows found (at most one); empty means ValueError
validate_task_ownership(rows, task_id, user_id) ==
    {r \in rows : r.id = task_id /\ r.user_id = user_id}

InvalidUserId == create_error_result(<<"Invalid user_id">>, "VALIDATION_ERROR")
AccessDenied ==
    create_error_result(<<"Task not found or access denied">>, "VALIDATION_ERROR")
MissingIdentifier ==
    create_error_result(<<"Please specify either a task ID or task title">>,
                        "MISSING_IDENTIFIER")

\* a title search without the filter on Task.user_id
title_matches_any_owner(rows, user_id, task_title) ==
    {r \in rows : ilike(r.title, task_title)}

\* matching rows of a title search, filtered by the identity
title_matches(rows, user_id, task_title) ==
    {r \in rows : r.user_id = user_id /\ ilike(r.title, task_title)}

RECURSIVE JoinLines(_)
JoinLines(lines) ==
    IF lines = <<>> THEN <<>>
    ELSE IF Len(lines) = 1 THEN lines[1]
    ELSE lines[1] \o <<"\n">> \o JoinLines(Tail(lines))

AmbiguousMatch(matching) ==
    LET ms == ById(matching)
        task_titles ==
            [i \in 1..Len(ms) |->
                <<"- ">> \o ms[i].title \o <<" (ID: ", ToString(ms[i].id), ")">>]
    IN create_error_result(
           <<"Multiple tasks match that description:\n">> \o JoinLines(task_titles)
             \o <<"\nPlease be more specific or use the task ID.">>,
           "AMBIGUOUS_MATCH")

(***************************************************************************)
(* Storage faults.  dbfail names the first Session call of the handler     *)
(* that raises: "exec" a query, "commit" the commit, "refresh" the refresh *)
(* that follows a successful commit; "none" means no call raises.          *)
(***************************************************************************)
DbFails == {"none", "exec", "commit", "refresh"}

DatabaseError(message) == create_error_result(message, "DATABASE_ERROR")

(***************************************************************************)
(* Locating the task of complete_task, delete_task and update_task: by id  *)
(* through the guard when task_id is truthy, else by title search.         *)
(* Yields [err, found, guarded]: err is the envelope to return, or NoneV,  *)
(* guarded the calls of validate_task_ownership made.                      *)
(***************************************************************************)
\* a lookup that settles on the matching tasks however many there are
find_task_any_match(rows, user_id, task_id, task_title, not_found) ==
    IF Truthy(task_id)
    THEN LET found == validate_task_ownership(rows, task_id.i, user_id)
         IN [err |-> IF found = {} THEN AccessDenied ELSE NoneV, found |-> found,
             guarded |-> {[task_id |-> task_id.i, user_id |-> user_id]}]
    ELSE LET matching_tasks == title_matches(rows, user_id, task_title.s)
         IN [err |-> IF matching_tasks = {}
                     THEN create_error_result(not_found, "TASK_NOT_FOUND")
                     ELSE NoneV,
             found |-> matching_tasks, guarded |-> {}]

find_task(rows, user_id, task_id, task_title, not_found) ==
    IF Truthy(task_id)
    THEN LET found == validate_task_ownership(rows, task_id.i, user_id)
         IN [err |-> IF found = {} THEN AccessDenied ELSE NoneV, found |-> found,
             guarded |-> {[task_id |-> task_id.i, user_id |-> user_id]}]
    ELSE LET matching_tasks == title_matches(rows, user_id, task_title.s)
         IN [err |-> IF matching_tasks = {}
                     THEN create_error_result(not_found, "TASK_NOT_FOUND")
                     ELSE IF Cardinality(matching_tasks) > 1
                     THEN AmbiguousMatch(matching_tasks)
                     ELSE NoneV,
             found |-> matching_tasks, guarded |-> {}]

NotFoundHint == <<"Task not found. Use 'show tasks' to see your list">>

(***************************************************************************)
(* AddTaskTool.execute                                                     *)
(***************************************************************************)
add_task(rows, nextId, params, dbfail) ==
    LET user_id == params.user_id
        title == params.title
        description == Arg(params, "description", StrV(<<>>))
        failed == DatabaseError(<<"Failed to create task. Please try again.">>)
    IN IF validate_user_id(user_id) = "ValueError"
       THEN Out(rows, nextId, InvalidUserId, {})
       ELSE IF validate_user_id(user_id) = "TypeError" THEN Out(rows, nextId, failed, {})
       ELSE IF ~ Truthy(title) \/ (title.t = "str" /\ strip(title.s) = <<>>)
       THEN Out(rows, nextId,
                create_error_result(<<"Task title cannot be empty">>, "INVALID_TITLE"), {})
       \* .strip() of a value that is no str raises AttributeError
       ELSE IF title.t # "str" \/ (Truthy(description) /\ description.t # "str")
       THEN Out(rows, nextId, failed, {})
       ELSE IF dbfail = "commit" THEN Out(rows, nextId, failed, {})
       ELSE LET task == Row(nextId, user_id.i, strip(title.s),
                            IF Truthy(description) THEN strip(description.s) ELSE <<>>,
                            FALSE)
            IN IF dbfail = "refresh"
               THEN Out(rows \cup {task}, nextId + 1, failed, {task})
               ELSE Out(rows \cup {task}, nextId + 1,
                        create_success_result(
                            <<"Task '">> \o title.s \o <<"' created successfully">>,
                            [task_id |-> task.id, title |-> task.title,
                             description |-> task.description,
                             completed |-> task.completed]),
                        {task})

(***************************************************************************)
(* ListTasksTool.execute                                                   *)
(***************************************************************************)
Filters == {<<"all">>, <<"pending">>, <<"completed">>}

list_tasks(rows, nextId, params, dbfail) ==
    LET user_id == params.user_id
        filter == Arg(params, "filter", StrV(<<"all">>))
        limit == Arg(params, "limit", IntV(50))
        failed == DatabaseError(<<"Failed to retrieve tasks. Please try again.">>)
    IN IF validate_user_id(user_id) = "ValueError"
       THEN Out(rows, nextId, InvalidUserId, {})
       ELSE IF validate_user_id(user_id) = "TypeError" THEN Out(rows, nextId, failed, {})
       ELSE IF ~ (filter.t = "str" /\ filter.s \in Filters)
       THEN Out(rows, nextId,
                create_error_result(<<"Filter must be 'all', 'pending', or 'completed'">>,
                                    "INVALID_FILTER"), {})
       ELSE IF dbfail = "exec" THEN Out(rows, nextId, failed, {})
       ELSE LET selected ==
                    {r \in rows : /\ r.user_id = user_id.i
                                  /\ (filter.s = <<"pending">> => ~ r.completed)
                                  /\ (filter.s = <<"completed">> => r.completed)}
                \* order_by(created_at.desc()).limit(limit); rows are created in id order
                tasks == Take(Reverse(ById(selected)), limit.i)
                n == Len(tasks)
                filter_text == IF filter.s # <<"all">> THEN filter.s ELSE <<>>
                message ==
                    IF n = 0 THEN <<"You have no tasks yet. Add one to get started!">>
                    ELSE <<"You have ", ToString(n), " ">> \o filter_text
                           \o (IF n # 1 THEN <<" tasks">> ELSE <<" task">>)
            IN Out(rows, nextId,
                   create_success_result(message,
                       [tasks |-> tasks, count |-> n, filter |-> filter.s]),
                   {tasks[i] : i \in 1..n})

(***************************************************************************)
(* CompleteTaskTool.execute                                                *)
(***************************************************************************)
\* a handler that never takes a task for completed
already_completed_never(task) == FALSE

\* if task.completed: the early return of complete_task
already_completed(task) == task.completed

complete_task(rows, nextId, params, dbfail) ==
    LET user_id == params.user_id
        task_id == Arg(params, "task_id", NoneV)
        task_title == Arg(params, "task_title", NoneV)
        failed == DatabaseError(<<"Failed to complete task. Please try again.">>)
    IN IF validate_user_id(user_id) = "ValueError"
       THEN Out(rows, nextId, InvalidUserId, {})
       ELSE IF validate_user_id(user_id) = "TypeError" THEN Out(rows, nextId, failed, {})
       ELSE IF ~ Truthy(task_id) /\ ~ Truthy(task_title)
       THEN Out(rows, nextId, MissingIdentifier, {})
       ELSE IF dbfail = "exec" THEN Out(rows, nextId, failed, {})
       ELSE LET f == find_task(rows, user_id.i, task_id, task_title, NotFoundHint)
            IN IF f.err # NoneV THEN Out(rows, nextId, f.err, {})
               ELSE LET task == CHOOSE r \in f.found : TRUE
                        done == [task EXCEPT !.completed = TRUE]
                    IN IF already_completed(task)
                       THEN Out(rows, nextId,
                                create_success_result(
                                    <<"Task '">> \o task.title
                                      \o <<"' is already marked as complete">>,
                                    [task_id |-> task.id, title |-> task.title,
                                     completed |-> TRUE]),
                                {task})
                       ELSE IF dbfail = "commit" THEN Out(rows, nextId, failed, {})
                       ELSE IF dbfail = "refresh"
                       THEN Out((rows \ {task}) \cup {done}, nextId, failed, {done})
                       ELSE Out((rows \ {task}) \cup {done}, nextId,
                                create_success_result(
                                    <<"Task '">> \o task.title
                                      \o <<"' marked as complete">>,
                                    [task_id |-> done.id, title |-> done.title,
                                     completed |-> done.completed]),
                                {done})

(***************************************************************************)
(* DeleteTaskTool.execute                                                  *)
(***************************************************************************)
delete_task(rows, nextId, params, dbfail) ==
    LET user_id == params.user_id
        task_id == Arg(params, "task_id", NoneV)
        task_title == Arg(params, "task_title", NoneV)
        failed == DatabaseError(<<"Failed to delete task. Please try again.">>)
    IN IF validate_user_id(user_id) = "ValueError"
       THEN Out(rows, nextId, InvalidUserId, {})
       ELSE IF validate_user_id(user_id) = "TypeError" THEN Out(rows, nextId, failed, {})
       ELSE IF ~ Truthy(task_id) /\ ~ Truthy(task_title)
       THEN Out(rows, nextId, MissingIdentifier, {})
       ELSE IF dbfail = "exec" THEN Out(rows, nextId, failed, {})
       ELSE LET f == find_task(rows, user_id.i, task_id, task_title,
                               <<"Task not found">>)
            IN IF f.err # NoneV THEN Out(rows, nextId, f.err, {})
               ELSE LET task == CHOOSE r \in f.found : TRUE
                    IN IF dbfail = "commit" THEN Out(rows, nextId, failed, {})
                       \* delete_task does not refresh
                       ELSE Out(rows \ {task}, nextId,
                                create_success_result(
                                    <<"Task '">> \o task.title \o <<"' has been deleted">>,
                                    [task_id |-> task.id, title |-> task.title]),
                                {task})

(***************************************************************************)
(* UpdateTaskTool.execute                                                  *)
(***************************************************************************)
\* an update that also reopens the task
updated_task_reopened(task, new_title, new_description) == [task EXCEPT !.title = IF Truthy(new_title) THEN strip(new_title.s) ELSE @, !.description = IF new_description # NoneV THEN strip(new_description.s) ELSE @, !.completed = FALSE]

\* an update that clears the description when none is given
updated_task_description_reset(task, new_title, new_description) == [task EXCEPT !.title = IF Truthy(new_title) THEN strip(new_title.s) ELSE @, !.description = IF new_description # NoneV THEN strip(new_description.s) ELSE <<>>]

\* if new_title: task.title = new_title.strip()
\* if new_description is not None: task.description = new_description.strip()
updated_task(task, new_title, new_description) ==
    [task EXCEPT
       !.title = IF Truthy(new_title) THEN strip(new_title.s) ELSE @,
       !.description = IF new_description # NoneV
                       THEN strip(new_description.s) ELSE @]

update_task(rows, nextId, params, dbfail) ==
    LET user_id == params.user_id
        task_id == Arg(params, "task_id", NoneV)
        task_title == Arg(params, "task_title", NoneV)
        new_title == Arg(params, "new_title", NoneV)
        new_description == Arg(params, "new_description", NoneV)
        failed == DatabaseError(<<"Failed to update task. Please try again.">>)
    IN IF validate_user_id(user_id) = "ValueError"
       THEN Out(rows, nextId, InvalidUserId, {})
       ELSE IF validate_user_id(user_id) = "TypeError" THEN Out(rows, nextId, failed, {})
       ELSE IF ~ Truthy(task_id) /\ ~ Truthy(task_title)
       THEN Out(rows, nextId, MissingIdentifier, {})
       ELSE IF ~ Truthy(new_title) /\ new_description = NoneV
       THEN Out(rows, nextId,
                create_error_result(<<"Please specify what you'd like to update">>,
                                    "NO_UPDATES"), {})
       ELSE IF Truthy(new_title) /\ strip(new_title.s) = <<>>
       THEN Out(rows, nextId,
                create_error_result(<<"Task title cannot be empty">>, "INVALID_TITLE"), {})
       ELSE IF dbfail = "exec" THEN Out(rows, nextId, failed, {})
       ELSE LET f == find_task(rows, user_id.i, task_id, task_title, NotFoundHint)
            IN IF f.err # NoneV THEN Out(rows, nextId, f.err, {})
               ELSE LET task == CHOOSE r \in f.found : TRUE
                        updated == updated_task(task, new_title, new_description)
                    IN IF dbfail = "commit" THEN Out(rows, nextId, failed, {})
                       ELSE IF dbfail = "refresh"
                       THEN Out((rows \ {task}) \cup {updated}, nextId, failed, {updated})
                       ELSE Out((rows \ {task}) \cup {updated}, nextId,
                                create_success_result(
                                    <<"Task updated successfully">>,
                                    [task_id |-> updated.id, title |-> updated.title,
                                     description |-> updated.description,
                                     completed |-> updated.completed]),
                                {updated})

(***************************************************************************)
(* MCPServer (mcp/server.py).  The registry is a Python dict: a sequence   *)
(* of entries in insertion order, one per name.                            *)
(***************************************************************************)
MCPTool(name, description, parameters, function) ==
    [name |-> name, description |-> description, parameters |-> parameters,
     function |-> function]

HasTool(tools, name) == \E k \in 1..Len(tools) : tools[k].name = name

\* a registry that keeps the entry a name already has
register_tool_keeps_first(tools, name, description, parameters, function) ==
    IF HasTool(tools, name)
    THEN tools
    ELSE Append(tools, MCPTool(name, description, parameters, function))

\* a registry in which a name registered again moves to the end
register_tool_moves_to_end(tools, name, description, parameters, function) ==
    Append(SelectSeq(tools, LAMBDA t : t.name # name),
           MCPTool(name, description, parameters, function))

\* self.tools[name] = tool: replaces in place, or appends
register_tool(tools, name, description, parameters, function) ==
    LET tool == MCPTool(name, description, parameters, function)
    IN IF HasTool(tools, name)
       THEN [k \in 1..Len(tools) |-> IF tools[k].name = name THEN tool ELSE tools[k]]
       ELSE Append(tools, tool)

\* a server that forgets its first tool when it is asked
tools_after_request_less_one(tools) == SubSeq(tools, 2, Len(tools))

\* self.tools once list_tools, get_tool or execute_tool has returned or
\* raised: the three read self.tools and assign nothing
tools_after_request(tools) == tools

get_tool(tools, name) == tools[CHOOSE k \in 1..Len(tools) : tools[k].name = name]

list_tools(tools) ==
    [k \in 1..Len(tools) |->
        [name |-> tools[k].name, description |-> tools[k].description,
         parameter_definitions |-> tools[k].parameters]]

\* the parameter definitions each tool declares
Param(type, required) == [type |-> type, required |-> required]
AddTaskParameters ==
    [user_id |-> Param("integer", TRUE), title |-> Param("string", TRUE),
     description |-> Param("string", FALSE)]
ListTasksParameters ==
    [user_id |-> Param("integer", TRUE), filter |-> Param("string", FALSE),
     limit |-> Param("integer", FALSE)]
CompleteTaskParameters ==
    [user_id |-> Param("integer", TRUE), task_id |-> Param("integer", FALSE),
     task_title |-> Param("string", FALSE)]
DeleteTaskParameters ==
    [user_id |-> Param("integer", TRUE), task_id |-> Param("integer", FALSE),
     task_title |-> Param("string", FALSE)]
UpdateTaskParameters ==
    [user_id |-> Param("integer", TRUE), task_id |-> Param("integer", FALSE),
     task_title |-> Param("string", FALSE), new_title |-> Param("string", FALSE),
     new_description |-> Param("string", FALSE)]

register_all_tools ==
    LET t1 == register_tool(<<>>, <<"add_task">>, <<"Create a new task">>,
                            AddTaskParameters, "AddTaskTool.execute")
        t2 == register_tool(t1, <<"list_tasks">>, <<"Retrieve tasks">>,
                            ListTasksParameters, "ListTasksTool.execute")
        t3 == register_tool(t2, <<"complete_task">>, <<"Mark a task as completed">>,
                            CompleteTaskParameters, "CompleteTaskTool.execute")
        t4 == register_tool(t3, <<"delete_task">>, <<"Permanently delete a task">>,
                            DeleteTaskParameters, "DeleteTaskTool.execute")
    IN register_tool(t4, <<"update_task">>, <<"Update a task">>,
                     UpdateTaskParameters, "UpdateTaskTool.execute")

\* the positional parameters without default of each execute signature
RequiredArgs(function) ==
    IF function = "AddTaskTool.execute" THEN {"user_id", "title"} ELSE {"user_id"}

\* tool.function(**parameters, db=db) binds: no second value for db, no
\* required parameter missing (anything else lands in **kwargs)
Binds(function, parameters) ==
    /\ "db" \notin DOMAIN parameters
    /\ RequiredArgs(function) \subseteq DOMAIN parameters

Handler(function, rows, nextId, parameters, dbfail) ==
    CASE function = "AddTaskTool.execute" -> add_task(rows, nextId, parameters, dbfail)
      [] function = "ListTasksTool.execute" -> list_tasks(rows, nextId, parameters, dbfail)
      [] function = "CompleteTaskTool.execute" ->
             complete_task(rows, nextId, parameters, dbfail)
      [] function = "DeleteTaskTool.execute" ->
             delete_task(rows, nextId, parameters, dbfail)
      [] function = "UpdateTaskTool.execute" ->
             update_task(rows, nextId, parameters, dbfail)

\* an executor that runs the first registered tool for a name it does not know
execute_tool_first_tool(tools, tool_name, parameters, rows, nextId, dbfail) ==
    LET tool == IF HasTool(tools, tool_name) THEN get_tool(tools, tool_name)
                ELSE tools[1]
    IN IF ~ Binds(tool.function, parameters)
       THEN [raised |-> TRUE, invoked |-> FALSE,
             error |-> <<"TypeError: ", tool.function, "() arguments">>,
             out |-> Out(rows, nextId, NoneV, {})]
       ELSE [raised |-> FALSE, invoked |-> TRUE, error |-> <<>>,
             out |-> Handler(tool.function, rows, nextId, parameters, dbfail)]

\* MCPServer.execute_tool: [raised, error] when it raises, else the handler's
\* envelope; invoked tells whether the handler body ran
execute_tool(tools, tool_name, parameters, rows, nextId, dbfail) ==
    IF ~ HasTool(tools, tool_name)
    THEN [raised |-> TRUE, invoked |-> FALSE,
          error |-> <<"Tool '">> \o tool_name \o <<"' not found in MCP server">>,
          out |-> Out(rows, nextId, NoneV, {})]
    ELSE LET tool == get_tool(tools, tool_name)
         IN IF ~ Binds(tool.function, parameters)
            THEN [raised |-> TRUE, invoked |-> FALSE,
                  error |-> <<"TypeError: ", tool.function, "() arguments">>,
                  out |-> Out(rows, nextId, NoneV, {})]
            ELSE [raised |-> FALSE, invoked |-> TRUE, error |-> <<>>,
                  out |-> Handler(tool.function, rows, nextId, parameters, dbfail)]

(***************************************************************************)
(* ToolValidator (validation/tool_validator.py): the pydantic models.      *)
(***************************************************************************)
TitleMaxLength == 255
DescriptionMaxLength == 1000
LimitMax == 100

\* an int field with gt/ge lo: absent is the default, when there is one
IntField(parameters, k, required, lo) ==
    IF k \notin DOMAIN parameters THEN ~ required
    ELSE parameters[k].t = "int" /\ lo <= parameters[k].i

\* a str field with min_length
StrField(parameters, k, required, min_length) ==
    IF k \notin DOMAIN parameters THEN ~ required
    ELSE parameters[k].t = "str" /\ min_length <= Len(parameters[k].s)

\* le / max_length of a field that is present
AtMost(parameters, k, max) ==
    k \in DOMAIN parameters =>
        IF parameters[k].t = "int" THEN parameters[k].i <= max
        ELSE Len(parameters[k].s) <= max

\* ToolValidator.validate returns (TRUE) or raises (FALSE)
validate(tool_name, parameters) ==
    CASE tool_name = <<"add_task">> ->
             /\ IntField(parameters, "user_id", TRUE, 1)
             /\ StrField(parameters, "title", TRUE, 1)
             /\ AtMost(parameters, "title", TitleMaxLength)
             /\ StrField(parameters, "description", FALSE, 0)
             /\ AtMost(parameters, "description", DescriptionMaxLength)
      [] tool_name = <<"list_tasks">> ->
             /\ IntField(parameters, "user_id", TRUE, 1)
             /\ ("filter" \in DOMAIN parameters =>
                    parameters["filter"].t = "str" /\ parameters["filter"].s \in Filters)
             /\ IntField(parameters, "limit", FALSE, 1)
             /\ AtMost(parameters, "limit", LimitMax)
      [] tool_name \in {<<"complete_task">>, <<"delete_task">>} ->
             /\ IntField(parameters, "user_id", TRUE, 1)
             /\ IntField(parameters, "task_id", FALSE, 1)
             /\ StrField(parameters, "task_title", FALSE, 1)
      [] tool_name = <<"update_task">> ->
             /\ IntField(parameters, "user_id", TRUE, 1)
             /\ IntField(parameters, "task_id", FALSE, 1)
             /\ StrField(parameters, "task_title", FALSE, 1)
             /\ StrField(parameters, "new_title", FALSE, 1)
             /\ AtMost(parameters, "new_title", TitleMaxLength)
             /\ StrField(parameters, "new_description", FALSE, 0)
             /\ AtMost(parameters, "new_description", DescriptionMaxLength)
      [] OTHER -> FALSE

(***************************************************************************)
(* CohereClient (agents/cohere_client.py).                                 *)
(***************************************************************************)
MaxAttempts == 3

\* wait_exponential(multiplier=1, min=2, max=10)
WaitMultiplier == 1
WaitMin == 2
WaitMax == 10

\* a wait that is not brought into the bounds
wait_exponential_unbounded(attempt_number) == WaitMultiplier * 2 ^ (attempt_number - 1)

\* the seconds tenacity sleeps once attempt attempt_number has failed:
\* multiplier * 2 ** (attempt_number - 1), brought into [min, max]
wait_exponential(attempt_number) ==
    LET result == WaitMultiplier * 2 ^ (attempt_number - 1)
        capped == IF result < WaitMax THEN result ELSE WaitMax
    IN IF capped > WaitMin THEN capped ELSE WaitMin

\* what one attempt of self.client.chat can end in, besides a response
Retryable == {"TooManyRequestsError", "ServiceUnavailableError"}
Failures == Retryable \cup {"Timeout", "UnauthorizedError", "BadRequestError"}

\* content blocks and tool calls of a backend response
TextBlock(text) == [kind |-> "text", text |-> text]
OtherBlock == [kind |-> "other"]
\* function.arguments: a str json.loads parses to v, or rejects; or a mapping
JsonStr(v) == [str |-> TRUE, parses |-> TRUE, v |-> v]
BadJson == [str |-> TRUE, parses |-> FALSE]
\* arguments that are already a value
Obj(v) == [str |-> FALSE, parses |-> TRUE, v |-> v]
Dict(d) == [t |-> "dict", d |-> d]
RawToolCall(name, arguments) == [name |-> name, arguments |-> arguments]

\* the first block that has a text, else ""
RECURSIVE first_text(_)
first_text(content) ==
    IF content = <<>> THEN <<>>
    ELSE IF Head(content).kind = "text" THEN Head(content).text
    ELSE first_text(Tail(content))

\* a tool call whose arguments do not parse is skipped
RECURSIVE parse_tool_calls(_)
parse_tool_calls(raw) ==
    IF raw = <<>> THEN <<>>
    ELSE LET tc == Head(raw)
         IN IF tc.arguments.str /\ ~ tc.arguments.parses
            THEN parse_tool_calls(Tail(raw))
            ELSE <<[name |-> tc.name, parameters |-> tc.arguments.v]>>
                   \o parse_tool_calls(Tail(raw))

\* the dictionary CohereClient.chat returns for a backend response
chat_result(response) ==
    [response |-> first_text(response.content),
     tool_calls |-> parse_tool_calls(response.tool_calls)]

\* CohereClient.validate_tool_call
validate_tool_call(tool_call) ==
    /\ tool_call.name.t = "str"
    /\ tool_call.parameters.t = "dict"

(***************************************************************************)
(* ConversationService (services/conversation_service.py).  Tables are     *)
(* sequences in creation order; a row's id is its position.                *)
(***************************************************************************)
HistoryLimit == 50

\* the conversation of user_id updated last, as order_by(updated_at.desc()).first()
latest_conversation(conversations, user_id) ==
    CHOOSE k \in 1..Len(conversations) :
        /\ conversations[k].user_id = user_id
        /\ \A j \in 1..Len(conversations) :
               conversations[j].user_id = user_id
                   => conversations[j].updated_at <= conversations[k].updated_at

\* db.exec(statement).first(): the id of that conversation, 0 for None
select_conversation(conversations, user_id) ==
    IF \E k \in 1..Len(conversations) : conversations[k].user_id = user_id
    THEN latest_conversation(conversations, user_id)
    ELSE 0

\* Conversation(user_id=user_id), added and committed
create_conversation(conversations, user_id, now) ==
    Append(conversations,
           [id |-> Len(conversations) + 1, user_id |-> user_id, updated_at |-> now])

\* the whole of get_or_create_conversation, nothing running beside it
get_or_create_conversation(conversations, user_id, now) ==
    IF select_conversation(conversations, user_id) # 0
    THEN [conversations |-> conversations,
          id |-> select_conversation(conversations, user_id)]
    ELSE [conversations |-> create_conversation(conversations, user_id, now),
          id |-> Len(conversations) + 1]

Roles == {"user", "assistant"}

\* a store_message that takes any role
store_message_any_role(msgs, conversations, conversation_id, user_id, role, content, now) ==
    [raised |-> FALSE,
     msgs |-> Append(msgs, [id |-> Len(msgs) + 1, conversation_id |-> conversation_id,
                            user_id |-> user_id, role |-> role, content |-> content,
                            created_at |-> now]),
     conversations |->
         [k \in 1..Len(conversations) |->
             IF conversations[k].id = conversation_id
             THEN [conversations[k] EXCEPT !.updated_at = now]
             ELSE conversations[k]]]

\* store_message: a role that is not of Roles raises ValueError before anything
\* is added; else the message is inserted and the conversation touched, in one
\* commit
store_message(msgs, conversations, conversation_id, user_id, role, content, now) ==
    IF role \notin Roles
    THEN [raised |-> TRUE, msgs |-> msgs, conversations |-> conversations]
    ELSE [raised |-> FALSE,
          msgs |-> Append(msgs, [id |-> Len(msgs) + 1,
                                 conversation_id |-> conversation_id,
                                 user_id |-> user_id, role |-> role,
                                 content |-> content, created_at |-> now]),
          conversations |->
              [k \in 1..Len(conversations) |->
                  IF conversations[k].id = conversation_id
                  THEN [conversations[k] EXCEPT !.updated_at = now]
                  ELSE conversations[k]]]

load_conversation_history(msgs, conversation_id, limit) ==
    Take(SelectSeq(msgs, LAMBDA m : m.conversation_id = conversation_id), limit)

build_message_array(history) ==
    [k \in 1..Len(history) |-> [role |-> history[k].role, content |-> history[k].content]]

(***************************************************************************)
(* State.                                                                  *)
(***************************************************************************)
VARIABLES
    registry,       \* mcp_server.tools
    rows,           \* table tasks
    nextId,         \* next primary key of tasks
    conversations,  \* table conversations
    msgs,           \* table messages, in the order of created_at
    now,            \* logical clock of the store
    identity,       \* current_user["user_id"] of the request
    conversation,   \* id of the conversation of the request
    pc,             \* position of the request
    messages,       \* run's argument
    attempt,        \* failed attempts of the gateway call in progress; kept
                    \* while run goes on after the first call
    errors,         \* what those attempts raised, in order
    waits,          \* the seconds slept before each retry of that call
    calls,          \* the gateway calls made: [messages, tools]
    response_text,  \* result["response"] of the first call
    tool_calls,     \* result["tool_calls"] of the first call
    received,       \* tool_calls as the gateway returned them
    backend_response, \* response of the backend to the attempt of the first
                    \* call that succeeded
    i,              \* next tool call of the loop
    tool_results,   \* outcomes collected
    dispatched,     \* handler invocations: [tool, at, parameters, before, after]
    result,         \* what run returned or raised
    http,           \* what the endpoint answered
    rows0,          \* the tasks before the first step
    last,           \* SpecTools: the last tool execution
    touched,        \* SpecTools: rows returned, created, modified or deleted
    steps,          \* SpecTools: executions so far
    registered,     \* the register_tool calls made on the server, in order
    requests        \* SpecChat: the chat requests in progress, each
                    \* [pc, conversation, content, history, messages, http]

store == <<rows, nextId>>
chatdb == <<conversations, msgs, now>>
run == <<messages, attempt, errors, waits, calls, response_text, tool_calls,
         received, backend_response, i, tool_results, dispatched, result>>
direct == <<last, touched, steps, registered, requests>>
vars == <<registry, store, chatdb, identity, conversation, pc, run, http, rows0, direct>>

(***************************************************************************)
(* Inputs.                                                                 *)
(***************************************************************************)
Users == {1, 2}

\* the tasks at the start: two of user 1 (one completed), one of user 2
SeedRows ==
    {Row(1, 1, <<"a">>, <<>>, FALSE),
     Row(2, 2, <<"A", "c">>, <<>>, FALSE),
     Row(3, 1, <<"a", "b">>, <<"d">>, TRUE)}

UserMessages == {<<"h", "i">>}

Name(n) == StrV(<<n>>)
EmptyDict == [k \in {} |-> NoneV]

\* the identity that is not user_id
Other(user_id) == CHOOSE u \in Users : u # user_id

\* tool calls a backend response to a request of user_id may carry
RawCalls(user_id) ==
    {RawToolCall(Name("add_task"), Obj(Dict([title |-> StrV(<<" ", "b">>)]))),
     RawToolCall(Name("add_task"), Obj(Dict([description |-> StrV(<<"d">>)]))),
     RawToolCall(Name("list_tasks"), JsonStr(Dict([user_id |-> IntV(Other(user_id))]))),
     RawToolCall(Name("complete_task"),
                 JsonStr(Dict([task_id |-> IntV(1), task_title |-> StrV(<<>>)]))),
     RawToolCall(Name("complete_task"), Obj(Dict([task_title |-> StrV(<<"a">>)]))),
     RawToolCall(Name("delete_task"),
                 Obj(Dict([task_id |-> IntV(2), user_id |-> IntV(2)]))),
     RawToolCall(Name("update_task"),
                 Obj(Dict([task_id |-> IntV(1), new_title |-> StrV(<<"c">>),
                           user_id |-> StrV(<<"x">>)]))),
     RawToolCall(Name("drop_tasks"), Obj(Dict(EmptyDict))),
     RawToolCall(Name("add_task"), JsonStr(ListV)),
     RawToolCall(Name("delete_task"), BadJson)}

\* message.content of a backend response: no block, or blocks of which the
\* second is the first with a text
Contents(first) == {<<>>, <<OtherBlock, TextBlock(first), TextBlock(<<"Done.">>)>>}

CallLists(user_id) == UNION {[1..n -> RawCalls(user_id)] : n \in 0..MaxCalls}

\* backend responses to the first call and to the synthesis call of a request
\* of user_id
Responses(with_tools, user_id) ==
    [content : Contents(<<"Sure.">>),
     tool_calls : IF with_tools THEN CallLists(user_id) ELSE {<<>>}]

(***************************************************************************)
(* The chat endpoint and the orchestrator.                                 *)
(***************************************************************************)
\* parameters.setdefault("user_id", user_id): keeps a user_id already there
Inject_setdefault(parameters, user_id) ==
    [k \in DOMAIN parameters \cup {"user_id"} |->
        IF k \in DOMAIN parameters THEN parameters[k] ELSE IntV(user_id)]

\* parameters["user_id"] = user_id
Inject(parameters, user_id) ==
    [k \in DOMAIN parameters \cup {"user_id"} |->
        IF k = "user_id" THEN IntV(user_id) ELSE parameters[k]]

\* "\n".join(f"Tool {tr['tool']}: {tr['result'].get('message', 'Executed')}")
tool_context(results) ==
    JoinLines([k \in 1..Len(results) |->
                  <<"Tool ">> \o results[k].tool \o <<": ">>
                    \o Arg(results[k].result, "message", <<"Executed">>)])

follow_up_messages(msgs_in, initial_response, results) ==
    msgs_in \o
    <<[role |-> "assistant", content |-> initial_response],
      [role |-> "user",
       content |-> <<"Tool execution results:\n">> \o tool_context(results)
                     \o <<"\n\nProvide a natural language response to the user based on these results.">>]>>

\* a return that decorates the text
Returned_with_prefix(response, calls_made, results) ==
    [raised |-> FALSE, response |-> <<"Operation completed. ">> \o response,
     tool_calls |-> calls_made, tool_results |-> results]

\* the dictionary run returns
Returned(response, calls_made, results) ==
    [raised |-> FALSE, response |-> response, tool_calls |-> calls_made,
     tool_results |-> results]

Init ==
    /\ registry = register_all_tools
    /\ rows = SeedRows
    /\ nextId = 4
    /\ conversations = <<>>
    /\ msgs = <<>>
    /\ now = 1
    /\ identity \in Users
    /\ conversation = 0
    /\ pc = "request"
    /\ messages = <<>>
    /\ attempt = 0
    /\ errors = <<>>
    /\ waits = <<>>
    /\ calls = <<>>
    /\ response_text = <<>>
    /\ tool_calls = <<>>
    /\ received = <<>>
    /\ backend_response = NoneV
    /\ i = 1
    /\ tool_results = <<>>
    /\ dispatched = <<>>
    /\ result = NoneV
    /\ http = NoneV
    /\ rows0 = rows
    /\ last = NoneV
    /\ touched = {}
    /\ steps = 0
    /\ registered = registry
    /\ requests = <<>>

\* chat, to the call of orchestrator.run
ChatBegin ==
    /\ pc = "request"
    /\ \E content \in UserMessages :
          LET g == get_or_create_conversation(conversations, identity, now)
              st == store_message(msgs, g.conversations, g.id, identity,
                                  "user", content, now + 1)
              history == load_conversation_history(st.msgs, g.id, HistoryLimit)
          IN /\ conversations' = st.conversations
             /\ msgs' = st.msgs
             /\ conversation' = g.id
             /\ messages' = build_message_array(history)
    /\ now' = now + 2
    /\ pc' = "run"
    /\ UNCHANGED <<registry, store, identity, attempt, errors, waits, calls,
                   response_text, tool_calls, received, backend_response, i,
                   tool_results, dispatched, result, http, rows0, direct>>

\* a gateway call begun: what it was given, and how it ended once it has
GatewayCall(msgs_in, tools) ==
    [messages |-> msgs_in, tools |-> tools, outcome |-> "pending"]

\* a log in which the end of a call is one more call
Ended_as_new_call(log, outcome) ==
    Append(log, [log[Len(log)] EXCEPT !.outcome = outcome])

\* the log once the call in progress has returned or raised
Ended(log, outcome) == [log EXCEPT ![Len(log)].outcome = outcome]

\* run, to the first call of the gateway
RunStart ==
    /\ pc = "run"
    /\ calls' = Append(calls, GatewayCall(messages,
                                          [t |-> "list", v |-> list_tools(registry)]))
    /\ attempt' = 0
    /\ errors' = <<>>
    /\ waits' = <<>>
    /\ registry' = tools_after_request(registry)
    /\ pc' = "first_call"
    /\ UNCHANGED <<store, chatdb, identity, conversation, messages, response_text,
                   tool_calls, received, backend_response, i, tool_results,
                   dispatched, result, http, rows0, direct>>

\* a fallback to the initial text of the model
Fallback_initial_response(results) == response_text

\* f"Operation completed. {tool_context}"
Fallback(results) == <<"Operation completed. ">> \o tool_context(results)

\* a retry that never gives up on a transient error
Retries_without_stop(kind, failed) == kind \in Retryable

\* a retry that does not look at the exception
Retries_every_error(kind, failed) == failed + 1 < MaxAttempts

\* tenacity calls again after an attempt raised kind, failed attempts having
\* failed before it: retry_if_exception_type and stop_after_attempt
Retries(kind, failed) == kind \in Retryable /\ failed + 1 < MaxAttempts

\* one attempt of the gateway call in progress ends in an error
AttemptFails(kind) ==
    /\ pc \in {"first_call", "synthesis"}
    /\ attempt < MaxAttempts
    /\ IF Retries(kind, attempt)
       THEN \* tenacity waits and calls again
            /\ attempt' = attempt + 1
            /\ errors' = Append(errors, kind)
            /\ waits' = Append(waits, wait_exponential(attempt + 1))
            /\ UNCHANGED <<pc, result, calls>>
       ELSE /\ calls' = Ended(calls, kind)
            /\ IF pc = "first_call"
               THEN /\ pc' = "raised"
                    /\ result' = [raised |-> TRUE, error |-> kind]
                    /\ attempt' = attempt + 1
                    /\ errors' = Append(errors, kind)
                    /\ UNCHANGED waits
               ELSE /\ pc' = "returned"
                    /\ result' = Returned(Fallback(tool_results), tool_calls,
                                          tool_results)
                    /\ attempt' = 0
                    /\ errors' = <<>>
                    /\ waits' = <<>>
    /\ UNCHANGED <<registry, store, chatdb, identity, conversation, messages,
                   response_text, tool_calls, received, backend_response, i,
                   tool_results, dispatched, http, rows0, direct>>

\* an attempt of the first call gets one of the responses: run, to the loop or
\* the return
FirstCallRespondsWith(responses) ==
    /\ pc = "first_call"
    /\ attempt < MaxAttempts
    /\ calls' = Ended(calls, "ok")
    /\ \E response \in responses :
          LET r == chat_result(response)
          IN /\ response_text' = r.response
             /\ tool_calls' = r.tool_calls
             /\ received' = r.tool_calls
             /\ backend_response' = response
             /\ IF r.tool_calls = <<>>
                THEN /\ pc' = "returned"
                     /\ result' = Returned(r.response, <<>>, <<>>)
                     /\ attempt' = 0
                     /\ errors' = <<>>
                     /\ waits' = <<>>
                ELSE /\ pc' = "tools"
                     /\ UNCHANGED <<result, attempt, errors, waits>>
    /\ UNCHANGED <<registry, store, chatdb, identity, conversation, messages, i,
                   tool_results, dispatched, http, rows0, direct>>

FirstCallResponds == FirstCallRespondsWith(Responses(TRUE, identity))

\* an attempt of the synthesis call gets a response: its text is the reply
SynthesisResponds ==
    /\ pc = "synthesis"
    /\ attempt < MaxAttempts
    /\ attempt' = 0
    /\ errors' = <<>>
    /\ waits' = <<>>
    /\ calls' = Ended(calls, "ok")
    /\ pc' = "returned"
    /\ \E response \in Responses(FALSE, identity) :
          result' = Returned(chat_result(response).response, tool_calls, tool_results)
    /\ UNCHANGED <<registry, store, chatdb, identity, conversation, messages,
                   response_text, tool_calls, received, backend_response, i,
                   tool_results, dispatched, http, rows0, direct>>

\* a Session that shows every tool the tasks as they were when the request began
visible_rows_at_start(at_start, committed) == at_start

\* the tasks a query of the request's Session finds: every handler has
\* committed or rolled back before it returns, so what is committed
visible_rows(at_start, committed) == committed

\* one turn of the loop over tool_calls
ToolCallStep ==
    /\ pc = "tools"
    /\ i <= Len(tool_calls)
    /\ i' = i + 1
    /\ LET tool_call == tool_calls[i]
       IN IF ~ validate_tool_call(tool_call)
          THEN UNCHANGED <<registry, store, tool_calls, tool_results, dispatched>>
          ELSE \E dbfail \in DbFails :
                  LET tool_name == tool_call.name.s
                      parameters == Inject(tool_call.parameters.d, identity)
                      r == execute_tool(registry, tool_name, parameters,
                                        visible_rows(rows0, rows), nextId, dbfail)
                      tool_result ==
                          IF r.raised
                          THEN [success |-> FALSE,
                                message |-> <<"Tool execution failed: ">> \o r.error]
                          ELSE r.out.result
                  IN /\ registry' = tools_after_request(registry)
                     /\ rows' = r.out.rows
                     /\ nextId' = r.out.nextId
                     /\ tool_calls' =
                            [tool_calls EXCEPT ![i].parameters = Dict(parameters)]
                     /\ tool_results' =
                            Append(tool_results,
                                   [tool |-> tool_name, result |-> tool_result])
                     /\ dispatched' =
                            IF r.invoked
                            THEN Append(dispatched,
                                        [tool |-> tool_name, at |-> i,
                                         parameters |-> parameters,
                                         before |-> rows, after |-> r.out.rows])
                            ELSE dispatched
    /\ UNCHANGED <<chatdb, identity, conversation, pc, messages, attempt, errors,
                   waits, calls, response_text, received, backend_response, result,
                   http, rows0, direct>>

\* a loop that is left once one tool call was handled
loop_finished_after_first(requested, next) == next > 1

\* `for tool_call in tool_calls` is exhausted
loop_finished(requested, next) == next > Len(requested)

\* _generate_final_response, to the synthesis call
GenerateFinalResponse ==
    /\ pc = "tools"
    /\ loop_finished(tool_calls, i)
    /\ IF tool_results = <<>>
       THEN /\ pc' = "returned"
            /\ result' = Returned(response_text, tool_calls, tool_results)
            /\ UNCHANGED calls
       ELSE /\ pc' = "synthesis"
            /\ calls' = Append(calls,
                   GatewayCall(follow_up_messages(messages, response_text,
                                                  tool_results), NoneV))
            /\ UNCHANGED result
    /\ attempt' = 0
    /\ errors' = <<>>
    /\ waits' = <<>>
    /\ UNCHANGED <<registry, store, chatdb, identity, conversation, messages,
                   response_text, tool_calls, received, backend_response, i,
                   tool_results, dispatched, http, rows0, direct>>

\* chat, after run has returned
ChatStoreReply ==
    /\ pc = "returned"
    /\ LET st == store_message(msgs, conversations, conversation, identity,
                               "assistant", result.response, now)
       IN /\ msgs' = st.msgs
          /\ conversations' = st.conversations
          /\ http' = [status |-> 200, conversation_id |-> conversation,
                      message_id |-> Len(st.msgs), response |-> result.response]
    /\ now' = now + 1
    /\ pc' = "done"
    /\ UNCHANGED <<registry, store, identity, conversation, run, rows0, direct>>

\* chat, when run has raised: an apology is stored as the assistant's message
ChatError_stores_reply ==
    /\ pc = "raised"
    /\ msgs' = Append(msgs, [id |-> Len(msgs) + 1, conversation_id |-> conversation,
                             user_id |-> identity, role |-> "assistant",
                             content |-> <<"An error occurred">>,
                             created_at |-> now])
    /\ http' = [status |-> 500]
    /\ pc' = "done"
    /\ UNCHANGED <<registry, store, conversations, now, identity, conversation, run,
                   rows0, direct>>

\* chat, when run has raised
ChatError ==
    /\ pc = "raised"
    /\ http' = [status |-> 500]
    /\ pc' = "done"
    /\ UNCHANGED <<registry, store, chatdb, identity, conversation, run, rows0,
                   direct>>

Next ==
    \/ ChatBegin
    \/ RunStart
    \/ \E kind \in Failures : AttemptFails(kind)
    \/ FirstCallResponds
    \/ SynthesisResponds
    \/ ToolCallStep
    \/ GenerateFinalResponse
    \/ ChatStoreReply
    \/ ChatError

Spec == Init /\ [][Next]_vars

\* the request goes on as long as it has a step to take: the event loop runs
\* the coroutine, and every attempt of a gateway call comes back
\* Responses are those that carry a tool call that is executed, one for a tool
\* that is not registered and one that is rejected, in any order.
FairRawCalls(user_id) ==
    {RawToolCall(Name("add_task"),
                 Obj(Dict([title |-> StrV(<<"b">>), user_id |-> IntV(Other(user_id))]))),
     RawToolCall(Name("drop_tasks"), Obj(Dict(EmptyDict))),
     RawToolCall(Name("add_task"), JsonStr(ListV))}

FairResponses(user_id) ==
    [content : Contents(<<"Sure.">>),
     tool_calls : UNION {[1..n -> FairRawCalls(user_id)] : n \in 0..MaxCalls}]

\* Responses whose tool calls work on the same tasks: a task is added and
\* completed by its title, a task of the identity is deleted and updated.
SequenceRawCalls(user_id) ==
    {RawToolCall(Name("add_task"), Obj(Dict([title |-> StrV(<<"e">>)]))),
     RawToolCall(Name("complete_task"), Obj(Dict([task_title |-> StrV(<<"e">>)]))),
     RawToolCall(Name("delete_task"), Obj(Dict([task_id |-> IntV(user_id)]))),
     RawToolCall(Name("update_task"),
                 Obj(Dict([task_id |-> IntV(user_id), new_title |-> StrV(<<"f">>)])))}

SequenceResponses(user_id) ==
    [content : Contents(<<"Sure.">>),
     tool_calls : UNION {[1..n -> SequenceRawCalls(user_id)] : n \in 0..MaxCalls}]

NextSequence ==
    \/ ChatBegin
    \/ RunStart
    \/ \E kind \in Failures : AttemptFails(kind)
    \/ FirstCallRespondsWith(SequenceResponses(identity))
    \/ SynthesisResponds
    \/ ToolCallStep
    \/ GenerateFinalResponse
    \/ ChatStoreReply
    \/ ChatError

SpecSequence == Init /\ [][NextSequence]_vars

NextFair ==
    \/ ChatBegin
    \/ RunStart
    \/ \E kind \in Failures : AttemptFails(kind)
    \/ FirstCallRespondsWith(FairResponses(identity))
    \/ SynthesisResponds
    \/ ToolCallStep
    \/ GenerateFinalResponse
    \/ ChatStoreReply
    \/ ChatError

SpecFair == Init /\ [][NextFair]_vars /\ WF_vars(NextFair)

(***************************************************************************)
(* SpecTools: the five tools executed directly through the executor, by    *)
(* one identity, on arguments drawn from the sets below.                   *)
(***************************************************************************)
\* all mappings that give some of the keys of F a value of F[key]
Dicts(F) ==
    UNION {{d \in [K -> UNION {F[k] : k \in K}] : \A k \in K : d[k] \in F[k]} :
           K \in SUBSET DOMAIN F}

IdArgs == {IntV(1), IntV(2), IntV(7)}
TitleArgs == {StrV(<<"a">>), StrV(<<"b">>), StrV(<<"c">>), StrV(<<"_">>)}

Calls(tool_name, argsets) == {[tool |-> tool_name, args |-> x] : x \in argsets}

AddTaskCalls ==
    Calls(<<"add_task">>,
          Dicts([title |-> {StrV(<<"a">>), StrV(<<" ", "b", " ">>), StrV(<<" ">>),
                            IntV(5)},
                 description |-> {StrV(<<"d", " ">>)}]))
ListTasksCalls ==
    Calls(<<"list_tasks">>,
          Dicts([filter |-> {StrV(<<"pending">>), StrV(<<"x">>)},
                 limit |-> {IntV(1)}]))
CompleteTaskCalls ==
    Calls(<<"complete_task">>, Dicts([task_id |-> IdArgs, task_title |-> TitleArgs]))
DeleteTaskCalls ==
    Calls(<<"delete_task">>, Dicts([task_id |-> IdArgs, task_title |-> TitleArgs]))
UpdateTaskCalls ==
    Calls(<<"update_task">>,
          Dicts([task_id |-> {IntV(1), IntV(2), IntV(7)},
                 task_title |-> {StrV(<<"a">>), StrV(<<"b">>)},
                 new_title |-> {StrV(<<"c", " ">>), StrV(<<" ">>)},
                 new_description |-> {StrV(<<" ", "e">>)}]))

DirectCalls ==
    AddTaskCalls \cup ListTasksCalls \cup CompleteTaskCalls \cup DeleteTaskCalls
      \cup UpdateTaskCalls

InitTools ==
    /\ registry = register_all_tools
    /\ rows = SeedRows
    /\ nextId = 4
    /\ conversations = <<>>
    /\ msgs = <<>>
    /\ now = 1
    /\ identity \in Users
    /\ conversation = 0
    /\ pc = "direct"
    /\ messages = <<>>
    /\ attempt = 0
    /\ errors = <<>>
    /\ waits = <<>>
    /\ calls = <<>>
    /\ response_text = <<>>
    /\ tool_calls = <<>>
    /\ received = <<>>
    /\ backend_response = NoneV
    /\ i = 1
    /\ tool_results = <<>>
    /\ dispatched = <<>>
    /\ result = NoneV
    /\ http = NoneV
    /\ rows0 = rows
    /\ last = NoneV
    /\ touched = {}
    /\ steps = 0
    /\ registered = registry
    /\ requests = <<>>

\* await mcp_server.execute_tool(tool_name, parameters, db) by the identity
Execute(tool_name, args, dbfail) ==
    /\ pc = "direct"
    /\ last = NoneV
    /\ steps < MaxSteps
    /\ LET parameters == Inject(args, identity)
           r == execute_tool(registry, tool_name, parameters, rows, nextId, dbfail)
       IN /\ rows' = r.out.rows
          /\ nextId' = r.out.nextId
          /\ touched' = touched \cup r.out.touched
          /\ last' = [tool |-> tool_name, parameters |-> parameters,
                      dbfail |-> dbfail, raised |-> r.raised,
                      result |-> r.out.result, before |-> rows, nextId |-> nextId]
    /\ registry' = tools_after_request(registry)
    /\ steps' = steps + 1
    /\ UNCHANGED <<chatdb, identity, conversation, pc, run, http, rows0, registered,
                   requests>>

\* the caller drops the envelope
Return ==
    /\ pc = "direct"
    /\ last # NoneV
    /\ last' = NoneV
    /\ UNCHANGED <<registry, store, chatdb, identity, conversation, pc, run, http,
                   rows0, touched, steps, registered, requests>>

NextTools ==
    \/ \E call \in DirectCalls, dbfail \in DbFails :
           Execute(call.tool, call.args, dbfail)
    \/ Return

SpecTools == InitTools /\ [][NextTools]_vars

(***************************************************************************)
(* SpecHandlers: the executor called with arguments as they are, the       *)
(* user_id of the call absent or no positive number, between calls made    *)
(* for the identity.                                                       *)
(***************************************************************************)
\* user_id values that are None, zero and negative
BadUserIds == {NoneV, IntV(0), IntV(-1)}

\* the arguments without a user_id, and with each of BadUserIds
Unidentified(args) ==
    {[k \in DOMAIN args \ {"user_id"} |-> args[k]]}
        \cup {[k \in DOMAIN args \cup {"user_id"} |->
                  IF k = "user_id" THEN user_id ELSE args[k]] :
              user_id \in BadUserIds}

\* await mcp_server.execute_tool(tool_name, parameters, db), nothing injected
Invoke(tool_name, parameters, dbfail) ==
    /\ pc = "direct"
    /\ last = NoneV
    /\ steps < MaxSteps
    /\ LET r == execute_tool(registry, tool_name, parameters, rows, nextId, dbfail)
       IN /\ rows' = r.out.rows
          /\ nextId' = r.out.nextId
          /\ touched' = touched \cup r.out.touched
          /\ last' = [tool |-> tool_name, parameters |-> parameters,
                      dbfail |-> dbfail, raised |-> r.raised,
                      result |-> r.out.result, before |-> rows, nextId |-> nextId]
    /\ registry' = tools_after_request(registry)
    /\ steps' = steps + 1
    /\ UNCHANGED <<chatdb, identity, conversation, pc, run, http, rows0, registered,
                   requests>>

InvokeUnidentified ==
    \E call \in DirectCalls :
        \E parameters \in Unidentified(call.args) :
            Invoke(call.tool, parameters, "none")

NextHandlers ==
    \/ \E call \in DirectCalls : Execute(call.tool, call.args, "none")
    \/ InvokeUnidentified
    \/ Return

SpecHandlers == InitTools /\ [][NextHandlers]_vars

(***************************************************************************)
(* Concurrent chat requests of one identity (api/chat.py).  Each request   *)
(* has its own Session; the statements and commits of the requests         *)
(* interleave, so a step is one query or one commit of one request.  What  *)
(* orchestrator.run does is left out: it returns a reply or raises.        *)
(***************************************************************************)
Requests == 1..MaxRequests

\* messages the conversation of the identity holds at the start: none (and no
\* conversation), and one exchange less than, or exactly, what
\* load_conversation_history reads
HistorySizes == {0, HistoryLimit - 2, HistoryLimit}

StoredMessages(user_id, n) ==
    [k \in 1..n |->
        [id |-> k, conversation_id |-> 1, user_id |-> user_id,
         role |-> IF k % 2 = 1 THEN "user" ELSE "assistant",
         content |-> <<"earlier">>, created_at |-> k]]

\* the conversations at the start: those of the identity, and one of each
\* other user, updated later
StoredConversations(own, users, at) ==
    IF users = {} THEN own
    ELSE Append(own, [id |-> Len(own) + 1, user_id |-> CHOOSE u \in users : TRUE,
                      updated_at |-> at])

\* request.message of request r
UserMessage(r) == <<"message ", ToString(r)>>

Replies == {<<"Done.">>}

\* roles store_message is called with
RoleArgs == Roles \cup {"system"}

InitChat ==
    /\ registry = register_all_tools
    /\ rows = SeedRows
    /\ nextId = 4
    /\ identity \in Users
    /\ \E n \in HistorySizes, others \in BOOLEAN :
          /\ conversations =
                 StoredConversations(
                     IF n = 0 THEN <<>>
                     ELSE <<[id |-> 1, user_id |-> identity, updated_at |-> n]>>,
                     IF others THEN {Other(identity)} ELSE {}, n + 1)
          /\ msgs = StoredMessages(identity, n)
          /\ now = n + 2
    /\ conversation = 0
    /\ pc = "chat"
    /\ messages = <<>>
    /\ attempt = 0
    /\ errors = <<>>
    /\ waits = <<>>
    /\ calls = <<>>
    /\ response_text = <<>>
    /\ tool_calls = <<>>
    /\ received = <<>>
    /\ backend_response = NoneV
    /\ i = 1
    /\ tool_results = <<>>
    /\ dispatched = <<>>
    /\ result = NoneV
    /\ http = NoneV
    /\ rows0 = rows
    /\ last = NoneV
    /\ touched = {}
    /\ steps = 0
    /\ registered = registry
    /\ requests = [r \in Requests |->
                      [pc |-> "begin", conversation |-> 0,
                       content |-> UserMessage(r), history |-> <<>>,
                       messages |-> <<>>, response |-> NoneV, http |-> NoneV]]

\* what no step of a chat request touches but the two tables and the requests
ChatFrame ==
    UNCHANGED <<registry, store, identity, conversation, pc, run, http, rows0, last,
                touched, steps, registered>>

\* get_or_create_conversation, the query
SelectConversation(r) ==
    /\ pc = "chat"
    /\ requests[r].pc = "begin"
    /\ LET id == select_conversation(conversations, identity)
       IN requests' = [requests EXCEPT ![r].conversation = id,
                                       ![r].pc = IF id = 0 THEN "create"
                                                 ELSE "store_user"]
    /\ UNCHANGED chatdb
    /\ ChatFrame

\* get_or_create_conversation, when the query found nothing: add and commit
CreateConversation(r) ==
    /\ pc = "chat"
    /\ requests[r].pc = "create"
    /\ conversations' = create_conversation(conversations, identity, now)
    /\ requests' = [requests EXCEPT ![r].conversation = Len(conversations) + 1,
                                    ![r].pc = "store_user"]
    /\ now' = now + 1
    /\ UNCHANGED msgs
    /\ ChatFrame

\* store_message(role="user", content=request.message)
StoreUserMessage(r) ==
    /\ pc = "chat"
    /\ requests[r].pc = "store_user"
    /\ LET st == store_message(msgs, conversations, requests[r].conversation,
                               identity, "user", requests[r].content, now)
       IN /\ msgs' = st.msgs
          /\ conversations' = st.conversations
    /\ requests' = [requests EXCEPT ![r].pc = "load"]
    /\ now' = now + 1
    /\ ChatFrame

\* load_conversation_history(limit=50) and build_message_array
LoadHistory(r) ==
    /\ pc = "chat"
    /\ requests[r].pc = "load"
    /\ LET history == load_conversation_history(msgs, requests[r].conversation,
                                                HistoryLimit)
       IN requests' = [requests EXCEPT ![r].history = history,
                                       ![r].messages = build_message_array(history),
                                       ![r].pc = "run"]
    /\ UNCHANGED chatdb
    /\ ChatFrame

\* orchestrator.run returns
RunReturns(r) ==
    /\ pc = "chat"
    /\ requests[r].pc = "run"
    /\ \E reply \in Replies :
          requests' = [requests EXCEPT ![r].response = reply,
                                       ![r].pc = "store_reply"]
    /\ UNCHANGED chatdb
    /\ ChatFrame

\* orchestrator.run raises: the endpoint answers 500
RunRaises(r) ==
    /\ pc = "chat"
    /\ requests[r].pc = "run"
    /\ requests' = [requests EXCEPT ![r].http = [status |-> 500],
                                    ![r].pc = "done"]
    /\ UNCHANGED chatdb
    /\ ChatFrame

\* store_message(role="assistant", content=result["response"]) and the answer
StoreReply(r) ==
    /\ pc = "chat"
    /\ requests[r].pc = "store_reply"
    /\ LET st == store_message(msgs, conversations, requests[r].conversation,
                               identity, "assistant", requests[r].response, now)
       IN /\ msgs' = st.msgs
          /\ conversations' = st.conversations
          /\ requests' =
                 [requests EXCEPT ![r].http =
                                      [status |-> 200,
                                       conversation_id |-> requests[r].conversation,
                                       message_id |-> Len(st.msgs),
                                       response |-> requests[r].response],
                                  ![r].pc = "done"]
    /\ now' = now + 1
    /\ ChatFrame

\* conversation_service.store_message called with a role, before the requests
\* come in
StoreMessage ==
    /\ pc = "chat"
    /\ steps < MaxStores
    /\ select_conversation(conversations, identity) # 0
    /\ \A r \in Requests : requests[r].pc = "begin"
    /\ \E role \in RoleArgs :
          LET st == store_message(msgs, conversations,
                                  select_conversation(conversations, identity),
                                  identity, role, <<"note">>, now)
          IN /\ msgs' = st.msgs
             /\ conversations' = st.conversations
             /\ last' = [role |-> role, raised |-> st.raised, before |-> msgs]
             /\ now' = IF st.raised THEN now ELSE now + 1
    /\ steps' = steps + 1
    /\ UNCHANGED <<registry, store, identity, conversation, pc, run, http, rows0,
                   touched, registered, requests>>

NextChat ==
    \/ \E r \in Requests : SelectConversation(r)
    \/ \E r \in Requests : CreateConversation(r)
    \/ \E r \in Requests : StoreUserMessage(r)
    \/ \E r \in Requests : LoadHistory(r)
    \/ \E r \in Requests : RunReturns(r)
    \/ \E r \in Requests : RunRaises(r)
    \/ \E r \in Requests : StoreReply(r)
    \/ StoreMessage

SpecChat == InitChat /\ [][NextChat]_vars

(***************************************************************************)
(* The registry alone: tools are registered on a server that starts empty, *)
(* under names that repeat, and executed by name in between.               *)
(***************************************************************************)
RegistryNames == {<<"add_task">>, <<"list_tasks">>}
RegistryDescriptions == {<<"Create a new task">>, <<"Retrieve tasks">>}
RegistryParameters == {AddTaskParameters, ListTasksParameters}
RegistryFunctions == {"AddTaskTool.execute", "ListTasksTool.execute"}

RegistryCalls(user_id) ==
    {[tool |-> <<"add_task">>, args |-> [title |-> StrV(<<"b">>)]],
     [tool |-> <<"list_tasks">>, args |-> [limit |-> IntV(user_id)]],
     [tool |-> <<"list_tasks">>, args |-> EmptyDict]}

\* MCPServer.__init__: self.tools = {}, and the server once mcp.tools was
\* imported
InitRegistry ==
    /\ registry \in {<<>>, register_all_tools}
    /\ rows = SeedRows
    /\ nextId = 4
    /\ conversations = <<>>
    /\ msgs = <<>>
    /\ now = 1
    /\ identity \in Users
    /\ conversation = 0
    /\ pc = "direct"
    /\ messages = <<>>
    /\ attempt = 0
    /\ errors = <<>>
    /\ waits = <<>>
    /\ calls = <<>>
    /\ response_text = <<>>
    /\ tool_calls = <<>>
    /\ received = <<>>
    /\ backend_response = NoneV
    /\ i = 1
    /\ tool_results = <<>>
    /\ dispatched = <<>>
    /\ result = NoneV
    /\ http = NoneV
    /\ rows0 = rows
    /\ last = NoneV
    /\ touched = {}
    /\ steps = 0
    /\ registered = registry
    /\ requests = <<>>

\* the register_tool calls made since the start
Registrations ==
    LET n == Len(register_all_tools)
    IN IF Len(registered) >= n /\ SubSeq(registered, 1, n) = register_all_tools
       THEN Len(registered) - n
       ELSE Len(registered)

\* mcp_server.register_tool(name, description, parameters, function)
RegisterTool ==
    /\ pc = "direct"
    /\ last = NoneV
    /\ Registrations < MaxRegistrations
    /\ \E name \in RegistryNames, description \in RegistryDescriptions,
          parameters \in RegistryParameters, function \in RegistryFunctions :
          /\ registry' = register_tool(registry, name, description, parameters,
                                       function)
          /\ registered' = Append(registered,
                                  MCPTool(name, description, parameters, function))
    /\ UNCHANGED <<store, chatdb, identity, conversation, pc, run, http, rows0, last,
                   touched, steps, requests>>

ExecuteRegistered ==
    \E call \in RegistryCalls(identity) : Execute(call.tool, call.args, "none")

NextRegistry ==
    \/ RegisterTool
    \/ ExecuteRegistered
    \/ Return

SpecRegistry == InitRegistry /\ [][NextRegistry]_vars

(***************************************************************************)
(* Claims about the tools (SpecTools).                                     *)
(***************************************************************************)
GuardedTools == {<<"complete_task">>, <<"delete_task">>, <<"update_task">>}

\* the last execution addressed, by id, a task of another identity
ForeignById ==
    /\ last # NoneV
    /\ last.tool \in GuardedTools
    /\ "task_id" \in DOMAIN last.parameters
    /\ \E t \in last.before :
           t.id = last.parameters.task_id.i /\ t.user_id # identity

\* ids no task had before the last execution
AbsentIds == {n \in 1..last.nextId : \A t \in last.before : t.id # n}

\* the last call again, on the same store, with task_id = n
SameCallOn(n) ==
    execute_tool(registry, last.tool, [last.parameters EXCEPT !.task_id = IntV(n)],
                 last.before, last.nextId, last.dbfail)

\* C1: complete_task, delete_task and update_task called by identity A with the
\* id of a task of another identity B return the very failure envelope the same
\* call returns for an id no task has, and leave B's task as it was.
C1_ForeignIdLikeAbsentId ==
    ForeignById =>
        /\ ~ last.raised
        /\ last.result.success = FALSE
        /\ \A n \in AbsentIds :
               /\ ~ SameCallOn(n).raised
               /\ SameCallOn(n).out.result = last.result
        /\ \A t \in last.before : t.user_id # identity => t \in rows

C1_Witness ==
    /\ ForeignById
    /\ last.tool = <<"delete_task">>
    /\ last.dbfail = "none"
    /\ last.result = AccessDenied
    /\ AbsentIds # {}

\* C2: whatever tools the identity runs, by id or by title, the tasks of the
\* other identities stay exactly as they were (none changed, removed or added),
\* and every task returned, created, modified or deleted belongs to the identity.
C2_Isolation ==
    /\ \A t \in rows0 : t.user_id # identity => t \in rows
    /\ \A t \in rows : t.user_id # identity => t \in rows0
    /\ \A t \in touched : t.user_id = identity

\* a second execution completed, by title, the one task of the identity that
\* matches, while tasks of the other identity match the title too
C2_Witness ==
    /\ steps = 2
    /\ last # NoneV
    /\ last.tool = <<"complete_task">>
    /\ "task_id" \notin DOMAIN last.parameters
    /\ last.result.success
    /\ rows # last.before
    /\ \E t \in rows0 :
           t.user_id # identity /\ ilike(t.title, last.parameters.task_title.s)
    /\ touched # {}

(***************************************************************************)
(* Claims about the orchestrator and the chat endpoint (Spec).             *)
(***************************************************************************)
RunReturned == result # NoneV /\ ~ result.raised
RunRaised == result # NoneV /\ result.raised

\* C3: the user_id every handler receives is the authenticated identity of the
\* request, whatever user_id the model put in the arguments.
C3_HandlerGetsAuthenticatedIdentity ==
    \A k \in 1..Len(dispatched) :
        dispatched[k].parameters.user_id = IntV(identity)

\* handlers ran for a request that named another user and for one whose
\* user_id is no integer
C3_Witness ==
    /\ \E k \in 1..Len(dispatched) :
          LET given == received[dispatched[k].at].parameters.d
          IN "user_id" \in DOMAIN given /\ given.user_id = IntV(2) /\ identity = 1
    /\ \E k \in 1..Len(dispatched) :
          LET given == received[dispatched[k].at].parameters.d
          IN "user_id" \in DOMAIN given /\ given.user_id.t = "str"

\* C4: a tool call whose arguments ToolValidator.validate rejects reaches no
\* handler and leaves the tasks as they were.
C4_InvalidCallNotDispatched ==
    \A k \in 1..Len(dispatched) :
        validate(dispatched[k].tool, dispatched[k].parameters)

\* C5: a first response without tool calls ends the run after that one gateway
\* call, with no handler invoked and the response text returned as it came.
C5_NoToolCalls ==
    (RunReturned /\ received = <<>>) =>
        /\ Len(calls) = 1
        /\ dispatched = <<>>
        /\ rows = rows0
        /\ result.response = response_text
        /\ result.tool_calls = <<>>
        /\ result.tool_results = <<>>
        /\ (pc = "done" => http.response = response_text)

C5_Witness ==
    /\ pc = "done"
    /\ RunReturned
    /\ received = <<>>
    /\ result.response = <<"Sure.">>

\* C6: a response carrying n tool-call requests gives exactly n outcomes, one
\* per request and in the order received, whichever of the requests fail.
C6_OneOutcomePerRequest ==
    RunReturned =>
        /\ Len(result.tool_results) = Len(received)
        /\ \A k \in 1..Len(received) :
               result.tool_results[k].tool = received[k].name.s

\* C7: a first response with at least one tool-call request is followed by a
\* second gateway call, without tools, on the original turns, the initial text
\* as an assistant turn and one user turn with a line "Tool <name>: <message>"
\* for every outcome in order.
C7_SynthesisCall ==
    (RunReturned /\ received # <<>>) =>
        /\ Len(calls) = 2
        /\ calls[2].tools = NoneV
        /\ calls[2].messages =
               follow_up_messages(messages, response_text, result.tool_results)

\* the names and messages of the outcomes, and the summary made of them alone
OutcomeLines(results) ==
    [k \in 1..Len(results) |->
        [tool |-> results[k].tool, message |-> results[k].result.message]]

SummaryOf(lines) ==
    <<"Operation completed. ">>
      \o JoinLines([k \in 1..Len(lines) |->
                       <<"Tool ">> \o lines[k].tool \o <<": ">> \o lines[k].message])

SynthesisFailed == Len(calls) = 2 /\ calls[2].outcome \in Failures

\* C8: when the synthesis call fails, run does not raise; it returns the
\* collected tool_results and a non-empty text determined by the names and
\* messages of the outcomes alone.
C8_SynthesisFailureFallback ==
    SynthesisFailed =>
        /\ RunReturned
        /\ result.response # <<>>
        /\ result.response = SummaryOf(OutcomeLines(tool_results))
        /\ result.tool_results = tool_results
        /\ tool_results # <<>>

\* the synthesis call gave up on a transient error after a tool had succeeded
\* and another had failed
C8_Witness ==
    /\ SynthesisFailed
    /\ calls[2].outcome = "ServiceUnavailableError"
    /\ pc = "done"
    /\ http.status = 200
    /\ Len(tool_results) = 2
    /\ tool_results[1].result.success
    /\ ~ tool_results[2].result.success

\* a failure after the first gateway call has succeeded
FailureAfterFirstCall ==
    /\ calls # <<>>
    /\ calls[1].outcome = "ok"
    /\ \/ \E k \in 1..Len(received) : ~ validate_tool_call(received[k])
       \/ \E k \in 1..Len(tool_results) : ~ tool_results[k].result.success
       \/ SynthesisFailed

\* C9: once the first gateway call has succeeded, a failure that follows never
\* makes run raise, and the text run returns is not empty.
C9_LaterFailuresAbsorbed ==
    /\ (FailureAfterFirstCall => ~ RunRaised)
    /\ (FailureAfterFirstCall /\ RunReturned => result.response # <<>>)

FirstCallFailed == calls # <<>> /\ calls[1].outcome \in Failures

AssistantMessages == SelectSeq(msgs, LAMBDA m : m.role = "assistant")

\* C10: when the first gateway call fails, run raises, no handler has been
\* invoked, the tasks are as they were, and the request ends in an error with
\* no assistant message stored.
C10_FirstCallFailureIsFatal ==
    FirstCallFailed =>
        /\ RunRaised
        /\ Len(calls) = 1
        /\ dispatched = <<>>
        /\ rows = rows0
        /\ AssistantMessages = <<>>
        /\ (pc = "done" => http.status = 500)

\* the request has ended after the first call gave up on a transient error
C10_Witness ==
    /\ FirstCallFailed
    /\ calls[1].outcome \in Retryable
    /\ pc = "done"

\* the gateway call in progress, if there is one
Pending == calls # <<>> /\ calls[Len(calls)].outcome = "pending"

\* the step is a failed attempt of the call in progress that is followed by
\* another attempt
Retried == Pending /\ Pending' /\ Len(calls') = Len(calls) /\ attempt' = attempt + 1

\* the step ends the call in progress with the error kind
Propagates(kind) ==
    /\ Pending
    /\ Len(calls') = Len(calls)
    /\ calls'[Len(calls)].outcome = kind

\* C11: one gateway call is attempted at most three times; another attempt
\* follows only an attempt that failed on a rate limit or on an unavailable
\* service, and only while fewer than three attempts have been made; every other
\* failure ends the call on the attempt on which it occurs.
C11_BoundedRetry ==
    [][ /\ Len(errors) = attempt
        /\ Pending => attempt < MaxAttempts
        /\ Retried =>
              /\ errors' = Append(errors, errors'[Len(errors')])
              /\ errors'[Len(errors')] \in Retryable
              /\ attempt' < MaxAttempts
        /\ \A kind \in Failures :
              Propagates(kind) =>
                  kind \notin Retryable \/ attempt + 1 = MaxAttempts
        /\ \A n \in 1..Len(errors) :
              n < Len(errors) => errors[n] \in Retryable ]_vars

\* the first call was given up on its second attempt, which failed on an error
\* that is not retried, after a first attempt that was
C11_Witness ==
    /\ pc = "raised"
    /\ Len(errors) = 2
    /\ errors[1] \in Retryable
    /\ errors[2] \notin Retryable
    /\ calls[1].outcome = errors[2]

\* the first call succeeded on its third attempt, after two transient failures
SucceededOnThirdAttempt ==
    /\ pc = "tools"
    /\ Len(errors) = MaxAttempts - 1
    /\ \A n \in 1..Len(errors) : errors[n] \in Retryable

\* the positions of dispatched that are invocations for tool call n
InvocationsOf(n) == {k \in 1..Len(dispatched) : dispatched[k].at = n}

\* tool call n of the response is one the loop hands to a handler
Invocable(n) ==
    /\ validate_tool_call(received[n])
    /\ execute_tool(registry, received[n].name.s,
                    Inject(received[n].parameters.d, identity),
                    rows, nextId, "none").invoked

\* C12: when the first two attempts of the first call fail transiently and the
\* third succeeds, run works on the parsed result of one backend response, the
\* log holds that one call as completed, every tool call of that response the
\* loop has passed was handed to its handler exactly once, in order, with the
\* arguments of the response, and no outcome comes from anything else.
C12_RetriedCallSeenOnce ==
    SucceededOnThirdAttempt =>
        /\ Len(calls) = 1
        /\ calls[1].outcome = "ok"
        /\ backend_response \in Responses(TRUE, identity)
        /\ chat_result(backend_response) =
               [response |-> response_text, tool_calls |-> received]
        /\ Len(tool_calls) = Len(received)
        /\ \A n \in 1..Len(received) :
              /\ Cardinality(InvocationsOf(n)) =
                     IF n < i /\ Invocable(n) THEN 1 ELSE 0
              /\ \A k \in InvocationsOf(n) :
                    /\ dispatched[k].tool = received[n].name.s
                    /\ dispatched[k].parameters =
                           Inject(received[n].parameters.d, identity)
        /\ \A k \in 1..Len(dispatched) :
              /\ dispatched[k].at \in 1..Len(received)
              /\ \A l \in 1..Len(dispatched) :
                    k < l => dispatched[k].at < dispatched[l].at
        /\ Len(tool_results) <= Len(received)
        /\ \A k \in 1..Len(tool_results) :
              \E n \in 1..Len(received) :
                  tool_results[k].tool = received[n].name.s

\* the loop has ended after a third attempt whose two tool calls both ran
C12_Witness ==
    /\ SucceededOnThirdAttempt
    /\ i > Len(tool_calls)
    /\ Len(dispatched) = 2

\* C13: a timeout of an attempt of the first call is treated as a rate limit
\* or an unavailable service is: the call is given up on a timeout only on its
\* third attempt; a timeout of the synthesis call makes run return the
\* fallback text with the outcomes collected.
C13_TimeoutIsTransient ==
    /\ (FirstCallFailed /\ calls[1].outcome = "Timeout" =>
            Len(errors) = MaxAttempts)
    /\ (Len(calls) = 2 /\ calls[2].outcome = "Timeout" =>
            /\ RunReturned
            /\ result.response = Fallback(result.tool_results))

RegisteredNames == {registered[k].name : k \in 1..Len(registered)}

\* what the last register_tool call made under the name was given
Latest(name) ==
    registered[CHOOSE k \in 1..Len(registered) :
                   /\ registered[k].name = name
                   /\ \A l \in (k + 1)..Len(registered) : registered[l].name # name]

\* C14: whatever register_tool calls were made, the registry holds one entry
\* for each name registered and no other, that entry is the one of the last
\* call made under the name, list_tools shows its description and schema, and
\* execute_tool runs its handler.
C14_OneEntryPerName ==
    /\ \A k, l \in 1..Len(registry) :
          registry[k].name = registry[l].name => k = l
    /\ {registry[k].name : k \in 1..Len(registry)} = RegisteredNames
    /\ \A k \in 1..Len(registry) : registry[k] = Latest(registry[k].name)
    /\ Len(list_tools(registry)) = Cardinality(RegisteredNames)
    /\ \A k \in 1..Len(list_tools(registry)) :
          LET listed == list_tools(registry)[k]
          IN /\ listed.name \in RegisteredNames
             /\ listed.description = Latest(listed.name).description
             /\ listed.parameter_definitions = Latest(listed.name).parameters
    /\ (last # NoneV /\ last.tool \in RegisteredNames) =>
          LET function == Latest(last.tool).function
          IN IF Binds(function, last.parameters)
             THEN /\ ~ last.raised
                  /\ last.result =
                         Handler(function, last.before, last.nextId,
                                 last.parameters, last.dbfail).result
             ELSE last.raised

\* a name was registered twice, with another description, schema and handler
\* the second time, and the tool was then executed under that name
C14_Witness ==
    /\ Len(registered) = 2
    /\ registered[1].name = registered[2].name
    /\ registered[1].description # registered[2].description
    /\ registered[1].parameters # registered[2].parameters
    /\ registered[1].function # registered[2].function
    /\ last # NoneV
    /\ last.tool = registered[1].name
    /\ ~ last.raised

\* the loop is at a well-formed tool call whose name is not registered
AtUnknownTool ==
    /\ pc = "tools"
    /\ i <= Len(tool_calls)
    /\ validate_tool_call(tool_calls[i])
    /\ ~ HasTool(registry, tool_calls[i].name.s)

\* str(e) of the ValueError get_tool raises for the name
UnknownToolMessage(name) == <<"Tool '">> \o name \o <<"' not found in MCP server">>

\* C15: a tool call whose name is not registered takes one turn of the loop: no
\* handler is invoked, the tasks stay as they are, one failure outcome naming
\* the unknown tool is recorded for it, run does not raise, and the loop moves
\* to the next tool call.
C15_UnknownToolFailsAlone ==
    [][ AtUnknownTool =>
          /\ dispatched' = dispatched
          /\ rows' = rows
          /\ nextId' = nextId
          /\ tool_results' =
                 Append(tool_results,
                        [tool |-> tool_calls[i].name.s,
                         result |-> [success |-> FALSE,
                                     message |-> <<"Tool execution failed: ">>
                                         \o UnknownToolMessage(tool_calls[i].name.s)]])
          /\ i' = i + 1
          /\ pc' = "tools"
          /\ result' = result
          /\ calls' = calls ]_vars

\* an unknown tool came first and the tool call after it ran its handler
C15_Witness ==
    /\ pc = "tools"
    /\ Len(tool_calls) = 2
    /\ i > 2
    /\ ~ HasTool(registry, tool_calls[1].name.s)
    /\ Len(tool_results) = 2
    /\ ~ tool_results[1].result.success
    /\ Len(dispatched) = 1
    /\ dispatched[1].at = 2
    /\ dispatched[1].after # dispatched[1].before

\* the values of error_code the tool handlers give to create_error_result
ErrorCodes ==
    {"TOOL_ERROR", "VALIDATION_ERROR", "MISSING_IDENTIFIER", "TASK_NOT_FOUND",
     "AMBIGUOUS_MATCH", "INVALID_TITLE", "INVALID_FILTER", "NO_UPDATES",
     "DATABASE_ERROR"}

\* a result envelope: success and message, data, and on failure a code of the
\* fixed set and no data
IsEnvelope(e) ==
    /\ {"success", "message", "data"} \subseteq DOMAIN e
    /\ e.success \in BOOLEAN
    /\ e.message \in Seq(STRING)
    /\ ~ e.success =>
          /\ "error_code" \in DOMAIN e
          /\ e.error_code \in ErrorCodes
          /\ e.data = <<>>

\* C16: every outcome run has collected is a result envelope: a boolean
\* success, a string message and a data mapping, and when success is false an
\* error_code of the fixed set and an empty data mapping.
C16_OutcomesAreEnvelopes ==
    \A k \in 1..Len(tool_results) : IsEnvelope(tool_results[k].result)

\* C17: executing a registered tool never raises: whatever the arguments and
\* whatever fails in the handler, execute_tool returns a result envelope.
C17_RegisteredToolNeverRaises ==
    (last # NoneV /\ HasTool(registry, last.tool)) =>
        /\ ~ last.raised
        /\ IsEnvelope(last.result)

MutatingTools ==
    {<<"add_task">>, <<"complete_task">>, <<"update_task">>, <<"delete_task">>}

\* the fixed texts the mutating handlers return when something unexpected
\* is caught
GenericFailures ==
    {<<"Failed to create task. Please try again.">>,
     <<"Failed to complete task. Please try again.">>,
     <<"Failed to update task. Please try again.">>,
     <<"Failed to delete task. Please try again.">>}

\* the last execution was one of a mutating handler in which a Session call
\* raised: without the fault the handler would have returned something else
StorageFailed ==
    /\ last # NoneV
    /\ ~ last.raised
    /\ last.tool \in MutatingTools
    /\ last.dbfail # "none"
    /\ last.result #
           execute_tool(registry, last.tool, last.parameters, last.before,
                        last.nextId, "none").out.result

\* C18: when a Session call raises inside add_task, complete_task, update_task
\* or delete_task, at the query, the commit or the refresh, the handler
\* returns a DATABASE_ERROR envelope with its fixed generic message, and the
\* tasks are exactly those there were before that execution, the writes of
\* earlier executions included.
C18_StorageFailureRollsBack ==
    StorageFailed =>
        /\ ~ last.result.success
        /\ last.result.error_code = "DATABASE_ERROR"
        /\ last.result.message \in GenericFailures
        /\ rows = last.before

\* the tasks of the identity the last execution addressed: by id when task_id
\* is truthy, else by the title
Addressed ==
    LET task_id == Arg(last.parameters, "task_id", NoneV)
        task_title == Arg(last.parameters, "task_title", NoneV)
    IN IF Truthy(task_id)
       THEN {t \in last.before : t.id = task_id.i /\ t.user_id = identity}
       ELSE IF Truthy(task_title) /\ task_title.t = "str"
       THEN {t \in last.before : t.user_id = identity /\ ilike(t.title, task_title.s)}
       ELSE {}

\* the last execution was complete_task on one task of the identity that was
\* completed already, and its query did not fail
CompletedAgain ==
    /\ last # NoneV
    /\ last.tool = <<"complete_task">>
    /\ last.dbfail # "exec"
    /\ Cardinality(Addressed) = 1
    /\ \A t \in Addressed : t.completed

\* C19: complete_task on a task of the identity that is completed already
\* returns a success envelope saying the task is already marked as complete and
\* leaves the tasks as they were, so that completing twice leaves what
\* completing once left.
C19_CompleteIsIdempotent ==
    CompletedAgain =>
        /\ ~ last.raised
        /\ last.result.success
        /\ \A t \in Addressed :
              /\ last.result.message =
                     <<"Task '">> \o t.title \o <<"' is already marked as complete">>
              /\ last.result.data.task_id = t.id
        /\ rows = last.before
        /\ nextId = last.nextId

\* the task was pending at the start, an execution completed it and a second
\* execution completed it again
C19_Witness ==
    /\ CompletedAgain
    /\ steps = 2
    /\ \E t \in Addressed : \E t0 \in rows0 : t0.id = t.id /\ ~ t0.completed

\* the last execution was complete_task, delete_task or update_task addressed
\* by title alone, and the title matches several tasks of the identity
AmbiguousTitle ==
    /\ last # NoneV
    /\ last.tool \in GuardedTools
    /\ ~ Truthy(Arg(last.parameters, "task_id", NoneV))
    /\ Cardinality(Addressed) > 1

\* the arguments of the last execution pass the checks the handler makes before
\* it looks the task up, and the lookup query does not fail
LookupReached ==
    LET new_title == Arg(last.parameters, "new_title", NoneV)
    IN /\ last.dbfail # "exec"
       /\ last.tool = <<"update_task">> =>
             /\ Truthy(new_title) \/ "new_description" \in DOMAIN last.parameters
             /\ Truthy(new_title) => strip(new_title.s) # <<>>

\* the line of the task in the list of an ambiguous match
TaskLine(t) == <<"- ">> \o t.title \o <<" (ID: ", ToString(t.id), ")">>

\* the text has the tokens of part, in a row
Contains(text, part) ==
    \E p \in 0..(Len(text) - Len(part)) :
        \A k \in 1..Len(part) : text[p + k] = part[k]

OwnConversations ==
    {k \in 1..Len(conversations) : conversations[k].user_id = identity}

\* the requests that have their conversation
HasConversation(r) == requests[r].pc \notin {"begin", "create"}

\* C21: whatever the interleaving of the chat requests of an identity, the
\* identity has at most one conversation and all the requests that have got
\* theirs have the same one (where the identity had a conversation at the
\* start nothing is created; the case is the start without one).
C21_OneConversationPerIdentity ==
    /\ Cardinality(OwnConversations) <= 1
    /\ \A r, q \in Requests :
          HasConversation(r) /\ HasConversation(q) =>
              requests[r].conversation = requests[q].conversation

\* request r has loaded its history and no other request has begun
LoadedAlone(r) ==
    /\ requests[r].pc = "run"
    /\ \A q \in Requests \ {r} : requests[q].pc = "begin"

\* the messages of the conversation of request r
ConversationMessages(r) ==
    SelectSeq(msgs, LAMBDA m : m.conversation_id = requests[r].conversation)

\* the last n elements of s, or all of s
LastOf(s, n) == SubSeq(s, IF Len(s) > n THEN Len(s) - n + 1 ELSE 1, Len(s))

\* C22: the message list a chat request hands to run is made of the most
\* recent messages of the conversation, at most 50, in ascending order of
\* creation, and ends with the user message the request has just stored,
\* however many messages the conversation holds (stated for a request that
\* runs with no other request beside it).
C22_HistoryIsMostRecent ==
    \A r \in Requests :
        LoadedAlone(r) =>
            /\ Len(requests[r].messages) <= HistoryLimit
            /\ requests[r].history = LastOf(ConversationMessages(r), HistoryLimit)
            /\ requests[r].messages = build_message_array(requests[r].history)
            /\ \A k \in 1..(Len(requests[r].history) - 1) :
                  requests[r].history[k].created_at
                      < requests[r].history[k + 1].created_at
            /\ requests[r].messages # <<>>
            /\ requests[r].messages[Len(requests[r].messages)] =
                   [role |-> "user", content |-> requests[r].content]

\* the tasks there were before the last execution that it changed or deleted
Mutated == {t \in last.before : t \notin rows}

\* the calls of validate_task_ownership the last execution made
GuardCalls ==
    find_task(last.before, identity, Arg(last.parameters, "task_id", NoneV),
              Arg(last.parameters, "task_title", NoneV), NotFoundHint).guarded

\* C23: when complete_task, delete_task or update_task has changed or deleted
\* a task, by id or by title, validate_task_ownership was called for that task
\* and the identity in that execution, and found the task.
C23_GuardBeforeMutation ==
    (last # NoneV /\ last.tool \in GuardedTools) =>
        \A t \in Mutated :
            /\ [task_id |-> t.id, user_id |-> identity] \in GuardCalls
            /\ validate_task_ownership(last.before, t.id, identity) # {}

\* the state of the run in the orchestrator's state machine; NO_TOOLS is
\* passed within the step in which the first call returns
Phase ==
    CASE pc = "request" -> "NOT_STARTED"
      [] pc = "run" -> "INIT"
      [] pc = "first_call" -> "MODEL_CALLED"
      [] pc = "tools" /\ i = 1 -> "TOOLS_REQUESTED"
      [] pc = "tools" /\ i > 1 -> "TOOLS_EXECUTING"
      [] pc = "synthesis" -> "SYNTHESIS_CALLED"
      [] pc = "raised" -> "RAISED"
      [] OTHER -> "DONE"

\* the edges of the two paths, DONE being reached from MODEL_CALLED through
\* NO_TOOLS and from SYNTHESIS_CALLED directly or through SYNTHESIS_FAILED
PathEdges ==
    {<<"NOT_STARTED", "INIT">>, <<"INIT", "MODEL_CALLED">>,
     <<"MODEL_CALLED", "DONE">>, <<"MODEL_CALLED", "RAISED">>,
     <<"MODEL_CALLED", "TOOLS_REQUESTED">>,
     <<"TOOLS_REQUESTED", "TOOLS_EXECUTING">>,
     <<"TOOLS_EXECUTING", "SYNTHESIS_CALLED">>,
     <<"SYNTHESIS_CALLED", "DONE">>, <<"RAISED", "DONE">>}

\* C24: a run moves only along INIT, MODEL_CALLED, NO_TOOLS, DONE or INIT,
\* MODEL_CALLED, TOOLS_REQUESTED, TOOLS_EXECUTING, SYNTHESIS_CALLED, DONE: it
\* passes through NO_TOOLS only when the first response carries no tool-call
\* request, and with a request it is not DONE before the synthesis call is made.
C24_RunStateMachine ==
    [][/\ Phase' # Phase => <<Phase, Phase'>> \in PathEdges
       /\ (Phase = "MODEL_CALLED" /\ Phase' = "DONE") => received' = <<>>
       /\ (Phase' = "DONE" /\ received' # <<>>) => Len(calls') = 2]_vars

\* the messages of the conversation request r works on, as stored
Thread(r) == SelectSeq(msgs, LAMBDA m : m.conversation_id = requests[r].conversation)

\* request q has stored its reply
Replied(q) == requests[q].pc = "done" /\ requests[q].http.status = 200

\* C25: requests of one identity on one conversation are not pipelined: the
\* history a request loads holds no user message of another request that is
\* without its reply, and the reply a request stores directly follows the user
\* message of that request.
C25_NotPipelined ==
    [][\A r \in Requests :
          /\ (requests[r].pc = "load" /\ requests'[r].pc = "run") =>
                 \A q \in Requests \ {r} :
                     (\E k \in 1..Len(requests'[r].history) :
                          requests'[r].history[k].content = UserMessage(q))
                         => Replied(q)
          /\ (requests[r].pc = "store_reply" /\ requests'[r].pc = "done") =>
                 /\ Thread(r) # <<>>
                 /\ Thread(r)[Len(Thread(r))].role = "user"
                 /\ Thread(r)[Len(Thread(r))].content = UserMessage(r)]_vars

\* C26: the messages are append-only: a stored message keeps its conversation,
\* identity, role, content and creation time and is never deleted; every
\* stored message has the role user or assistant, and store_message called
\* with another role raises and stores nothing.
C26_MessagesAppendOnly ==
    [][/\ Len(msgs') >= Len(msgs)
       /\ SubSeq(msgs', 1, Len(msgs)) = msgs
       /\ \A k \in 1..Len(msgs') : msgs'[k].role \in Roles
       /\ (steps' # steps /\ last'.role \notin Roles) =>
              /\ last'.raised
              /\ msgs' = msgs]_vars

\* store_message has refused the role system, and a request has stored its
\* messages after it
C26_Witness ==
    /\ last # NoneV
    /\ last.role = "system"
    /\ last.raised
    /\ \E r \in Requests : Replied(r)
    /\ Len(msgs) = Len(last.before) + 2 * Cardinality({r \in Requests : Replied(r)})
                       + Cardinality({r \in Requests :
                                         requests[r].pc \in {"load", "run", "store_reply"}
                                         \/ (requests[r].pc = "done" /\ ~ Replied(r))})

\* the names of a sequence of entries, and the names in the order in which
\* each was first met
NamesOf(entries) == [k \in 1..Len(entries) |-> entries[k].name]

RECURSIVE FirstOccurrences(_)
FirstOccurrences(s) ==
    IF s = <<>>
    THEN <<>>
    ELSE LET front == FirstOccurrences(SubSeq(s, 1, Len(s) - 1))
         IN IF \E k \in 1..Len(front) : front[k] = s[Len(s)]
            THEN front
            ELSE Append(front, s[Len(s)])

\* C27: list_tools returns one entry of name, description and
\* parameter_definitions for each registered tool, in the order in which the
\* names were first registered, whatever was registered again since.
C27_ListedInRegistrationOrder ==
    /\ NamesOf(list_tools(registry)) = FirstOccurrences(NamesOf(registered))
    /\ \A k \in 1..Len(list_tools(registry)) :
          /\ DOMAIN list_tools(registry)[k] =
                 {"name", "description", "parameter_definitions"}
          /\ list_tools(registry)[k].description = registry[k].description
          /\ list_tools(registry)[k].parameter_definitions = registry[k].parameters

\* a name other than the last one listed was registered again, with another
\* description
C27_Witness ==
    /\ Len(registry) >= 2
    /\ Len(registered) > Len(registry)
    /\ registered[Len(registered)].name = registry[1].name
    /\ registered[Len(registered)].description # registered[1].description

\* the requests of the first response that pass validate_tool_call
ValidRequests == {k \in 1..Len(received) : validate_tool_call(received[k])}

\* C28: within one run the tool calls are executed one at a time in the order
\* received, no tool is executed while a gateway call is in progress, the
\* synthesis call starts only when every tool execution has finished and its
\* outcome is collected, the two gateway calls do not overlap and there are at
\* most two of them.
C28_SequentialRun ==
    /\ Len(calls) <= 2
    /\ \A k \in 1..(Len(calls) - 1) : calls[k].outcome # "pending"
    /\ \A k \in 1..Len(dispatched) :
          /\ dispatched[k].at < i
          /\ dispatched[k].at \in ValidRequests
          /\ k > 1 => dispatched[k - 1].at < dispatched[k].at
    /\ pc = "tools" => (Len(calls) = 1 /\ ~ Pending)
    /\ dispatched # <<>> => calls[1].outcome = "ok"
    /\ Len(calls) = 2 =>
          /\ i = Len(received) + 1
          /\ Len(tool_results) = Cardinality(ValidRequests)
          /\ calls[2].messages =
                 follow_up_messages(messages, response_text, tool_results)

\* a run has executed two tools, then made the synthesis call and returned
C28_Witness ==
    /\ RunReturned
    /\ Len(calls) = 2
    /\ Len(dispatched) = 2
    /\ dispatched[1].at = 1
    /\ dispatched[2].at = 2

\* C29: handling a request leaves the registry as it is: no step of run, with
\* the list_tools, get_tool and execute_tool calls it makes, adds, removes or
\* replaces an entry.
C29_RegistryUnchanged ==
    [][registry' = registry]_vars

\* a run has listed the tools, executed one and asked for one that is not
\* registered, and the registry holds what was registered at the start
C29_Witness ==
    /\ RunReturned
    /\ Len(received) = 2
    /\ Len(dispatched) = 1
    /\ \E k \in 1..2 : ~ HasTool(registry, received[k].name.s)
    /\ registry = register_all_tools

\* json.loads accepts the arguments of the tool call, or they are no string
Parses(tc) == ~ tc.arguments.str \/ tc.arguments.parses

\* the tool calls of the backend response whose arguments parse
Parsed == SelectSeq(backend_response.tool_calls, Parses)

\* C30: of the tool calls of a response, those whose serialized arguments do
\* not parse are dropped and the call succeeds; all the others are returned in
\* their order, each with its name and with its arguments as a mapping.
C30_UnparsableCallsDropped ==
    backend_response # NoneV =>
        /\ calls[1].outcome = "ok"
        /\ Len(received) = Len(Parsed)
        /\ \A k \in 1..Len(received) :
               /\ received[k].name = Parsed[k].name
               /\ received[k].parameters = Parsed[k].arguments.v
               /\ received[k].parameters.t = "dict"

\* C31: the wait before each retry of a gateway call starts at 2 seconds, is
\* never below 2 nor above 10 seconds, and the wait before attempt 3 is not
\* shorter than the wait before attempt 2; there is one wait per retry.
C31_BackoffBounded ==
    /\ Pending => Len(waits) = attempt
    /\ \A k \in 1..Len(waits) :
          /\ waits[k] >= WaitMin
          /\ waits[k] <= WaitMax
          /\ k > 1 => waits[k - 1] <= waits[k]
    /\ waits # <<>> => waits[1] = 2

\* the third attempt of a gateway call is in progress, after two waits
C31_Witness ==
    /\ Pending
    /\ attempt = 2
    /\ Len(waits) = 2

\* the last execution was given no user_id, or one that is None, zero or
\* negative
LastUnidentified ==
    /\ last # NoneV
    /\ \/ "user_id" \notin DOMAIN last.parameters
       \/ last.parameters.user_id \in BadUserIds

\* C32: a tool invoked with a missing, zero or negative user_id fails, and
\* neither reads nor writes the task store: the store is as before, no row is
\* returned, and the outcome is the one the same call has on an empty store
\* whose every access fails.
C32_IdentityCheckedFirst ==
    LastUnidentified =>
        /\ last.raised \/ ~ last.result.success
        /\ rows = last.before
        /\ nextId = last.nextId
        /\ \A f \in DbFails :
               LET r == execute_tool(registry, last.tool, last.parameters, {},
                                     1, f)
               IN /\ r.raised = last.raised
                  /\ r.out.result = last.result
                  /\ r.out.touched = {}

\* each of the five tools was invoked with a user_id of zero on a store that
\* holds tasks, and answered with the envelope of the identity check
C32_Witness ==
    /\ LastUnidentified
    /\ "user_id" \in DOMAIN last.parameters
    /\ last.parameters.user_id = IntV(0)
    /\ last.tool = <<"delete_task">>
    /\ "task_id" \in DOMAIN last.parameters
    /\ \E r \in rows : r.id = last.parameters.task_id.i
    /\ last.result = InvalidUserId

\* the identity's conversations that none of its conversations was updated after
LatestOwn ==
    {k \in OwnConversations :
        \A j \in OwnConversations :
            conversations[j].updated_at <= conversations[k].updated_at}

\* get_or_create_conversation of request r returns in this step
Returns(r) ==
    /\ requests[r].pc \in {"begin", "create"}
    /\ requests'[r].pc = "store_user"

\* C33: get_or_create_conversation creates a conversation only when the
\* identity has none; otherwise it returns the identity's conversation updated
\* last, never one of another identity; a store_message that succeeds sets the
\* update time of its conversation; no conversation is ever deleted.
C33_ConversationLifecycle ==
    [][/\ Len(conversations') > Len(conversations) => OwnConversations = {}
       /\ \A r \in Requests :
             Returns(r) =>
                 /\ requests'[r].conversation \in 1..Len(conversations')
                 /\ conversations'[requests'[r].conversation].user_id = identity
                 /\ requests[r].pc = "begin" =>
                        requests'[r].conversation \in LatestOwn
       /\ Len(msgs') > Len(msgs) =>
             LET m == msgs'[Len(msgs')]
             IN conversations'[m.conversation_id].updated_at = m.created_at
       /\ Len(conversations') >= Len(conversations)
       /\ \A k \in 1..Len(conversations) :
             /\ conversations'[k].id = conversations[k].id
             /\ conversations'[k].user_id = conversations[k].user_id]_vars

C35_RunTerminates ==
    (pc = "run") ~> (RunReturned \/ RunRaised)

\* a run has ended after two tool calls and a synthesis call that used its
\* three attempts
C35_Witness ==
    /\ RunReturned
    /\ Len(received) = 2
    /\ Len(calls) = 2
    /\ calls[2].outcome \in Retryable

\* the tasks as handler invocation k of the run found them, if it saw what the
\* invocations before it have committed
CommittedBefore(k) == IF k = 1 THEN rows0 ELSE dispatched[k - 1].after

\* C36: the tool executions of a run take effect one after the other on the
\* task store: each handler works on the tasks as the handlers before it in
\* the same response left them, and its outcome is the one it has on those
\* tasks; the store at the end is what the last one left.
C36_ToolsSeeEarlierEffects ==
    /\ Len(dispatched) <= Len(tool_results)
    /\ \A k \in 1..Len(dispatched) :
          LET d == dispatched[k]
              function == get_tool(registry, d.tool).function
          IN /\ d.before = CommittedBefore(k)
             /\ \E f \in DbFails, n \in 4..(4 + Len(dispatched)) :
                   LET o == Handler(function, CommittedBefore(k), n, d.parameters, f)
                   IN /\ o.rows = d.after
                      /\ o.result = tool_results[k].result
    /\ rows = CommittedBefore(Len(dispatched) + 1)

\* a response asked to add a task and to complete it by its title, and one
\* asked to delete a task and to update it: the second call found the new
\* task, or did not find the deleted one
C36_Witness ==
    /\ Len(dispatched) = 2
    /\ tool_results[1].result.success
    /\ \/ /\ dispatched[1].tool = <<"add_task">>
          /\ dispatched[2].tool = <<"complete_task">>
          /\ tool_results[2].result.success
          /\ \E r \in rows : r.title = <<"e">> /\ r.completed
       \/ /\ dispatched[1].tool = <<"delete_task">>
          /\ dispatched[2].tool = <<"update_task">>
          /\ tool_results[2].result = AccessDenied

\* the task of rows with the given primary key, as a set
TaskWithId(tasks, id) == {r \in tasks : r.id = id}

\* C37: completion is monotonic under the tools: whatever handler runs, a
\* completed task that still exists afterwards is still completed, and every
\* task that add_task has created is not completed and belongs to the
\* identity the call was made for.
C37_CompletionMonotonic ==
    [][/\ \A r \in rows : r.completed =>
             \A r2 \in TaskWithId(rows', r.id) : r2.completed
       /\ \A r2 \in rows' :
             TaskWithId(rows, r2.id) = {} =>
                /\ last'.tool = <<"add_task">>
                /\ ~ r2.completed
                /\ r2.user_id = identity]_vars

\* update_task has changed a completed task, and add_task has created one
C37_Witness ==
    /\ \E r \in rows : r.completed /\ r \notin SeedRows
    /\ \E r \in rows : r.id >= 4 /\ ~ r.completed /\ r.user_id = identity

\* the failure envelopes of update_task that come before any write
UpdateRefusals ==
    {"MISSING_IDENTIFIER", "NO_UPDATES", "INVALID_TITLE", "TASK_NOT_FOUND",
     "AMBIGUOUS_MATCH", "VALIDATION_ERROR"}

\* C38: update_task changes only what was asked: after a successful call one
\* task of the identity differs from before, in its title only if new_title
\* was given and in its description only if new_description was given, its
\* completed flag and owner are as before and so is every other task; a call
\* refused for a missing identifier, no updates, a blank new title, a task
\* not found or an ambiguous match leaves the tasks as they were.
C38_UpdateChangesOnlyWhatWasAsked ==
    (last # NoneV /\ last.tool = <<"update_task">>) =>
        LET p == last.parameters
        IN /\ last.result.success =>
                \E task \in last.before :
                   \E after \in rows :
                      /\ task.user_id = identity
                      /\ task.id = last.result.data.task_id
                      /\ rows \ {after} = last.before \ {task}
                      /\ after.id = task.id
                      /\ after.user_id = task.user_id
                      /\ after.completed = task.completed
                      /\ "new_title" \notin DOMAIN p => after.title = task.title
                      /\ "new_description" \notin DOMAIN p =>
                             after.description = task.description
           /\ (~ last.result.success /\ last.result.error_code \in UpdateRefusals) =>
                  rows = last.before

\* update_task was given a new title alone for a completed task that has a
\* description, and has changed it
C38_Witness ==
    /\ last # NoneV
    /\ last.tool = <<"update_task">>
    /\ last.result.success
    /\ DOMAIN last.parameters = {"user_id", "task_title", "new_title"}
    /\ \E task \in last.before \ rows : task.completed /\ task.description # <<>>

\* a title that is empty or whitespace only
BlankTitle(title) == title.t = "str" /\ strip(title.s) = <<>>

\* C39: add_task creates a task exactly when the title is not blank: an empty
\* or whitespace-only title gives the INVALID_TITLE envelope and no task;
\* any other title gives exactly one new task, with the title stripped, not
\* completed, owned by the calling identity, and a success envelope whose
\* data carries the id of the new task.
C39_AddTaskCreatesIffTitleNotBlank ==
    (/\ last # NoneV
     /\ last.tool = <<"add_task">>
     /\ ~ last.raised
     /\ "title" \in DOMAIN last.parameters) =>
        LET title == last.parameters.title
        IN IF BlankTitle(title)
           THEN /\ ~ last.result.success
                /\ last.result.error_code = "INVALID_TITLE"
                /\ rows = last.before
           ELSE \E task \in rows :
                   /\ rows \ {task} = last.before
                   /\ task \notin last.before
                   /\ title.t = "str"
                   /\ task.title = strip(title.s)
                   /\ ~ task.completed
                   /\ task.user_id = identity
                   /\ last.result.success
                   /\ last.result.data.task_id = task.id

====
